---- MODULE Spec2Model ----
(***************************************************************************)
(* Balloon constellation tracker: snapshot validation, trajectory          *)
(* building, balloon grouping, DBSCAN cluster detection and the hourly     *)
(* load cycle, modelled from the JavaScript sources.                       *)
(*                                                                         *)
(* Numbers.  A number x of the balloon feed (degrees, km, metres) is       *)
(* represented by the integer 10*x, so 10.5 is 105 and 45.0 is 450; Fix(k) *)
(* is the representation of the integer literal k.  Multiplication by an   *)
(* integer constant and comparison act on representations unchanged.       *)
(*                                                                         *)
(* The timestamps of the balloon feed are not modelled: no property        *)
(* checked here reads them.  The clock of the weather service is, in ms.   *)
(***************************************************************************)
EXTENDS Integers, Sequences, FiniteSets, TLC

VARIABLES
    pc,               \* position of the scenario: "start" | "done"
    vData,            \* validateBalloonData: raw payload of one hour
    vHour,            \* validateBalloonData: hour offset argument
    vResult,          \* validateBalloonData: returned snapshot or Null
    allHoursData,     \* the list of hourly snapshots given to the two builders
    processed,        \* processBalloonData: returned balloon list
    tracks,           \* processConstellationHistory: returned map id -> selectedTrack
    inputBalloons,    \* detectClusters: the balloon list
    reorderedBalloons, \* detectClusters: the same balloons in another order
    dbscanConfig,     \* detectClusters: eps, minPts, altitudeWeight
    foundClusters,    \* detectClusters(inputBalloons, dbscanConfig)
    foundReordered,   \* detectClusters(reorderedBalloons, dbscanConfig)
    fetches,          \* per hour, how the request of the running load settled
    loading,          \* App state: loading
    error,            \* App state: error, "null" or the message
    denseRegions,     \* App state: denseRegions
    stats,            \* App state: stats
    cycles,           \* the refresh cycles started so far, oldest first: how
                      \* each was started, and the feed it found once done
    segmentFrom,             \* calculateSegmentSpeed: first position or Null
    segmentTo,             \* calculateSegmentSpeed: second position or Null
    segmentSpeed,     \* calculateSegmentSpeed(segmentFrom, segmentTo), as <<distance, hours>>
    movement,         \* how the balloons of the motion scenario move
    selectedTrack,    \* the track given to the motion metrics, or undefined
    trackSpeeds,      \* calculateTrackSpeeds(selectedTrack)
    totalDistance,    \* calculateTotalDistance(selectedTrack)
    trackStats,       \* calculateTrackStats(selectedTrack)
    driftVector,      \* calculateDriftVector(selectedTrack[0], selectedTrack[1])
    isEddy,           \* detectEddies(selectedTrack)
    isTurbulent,      \* detectTurbulence(selectedTrack)
    timeWindow,       \* filterTracksByTime: <<startHour, endHour>>
    filteredTracks,   \* filterTracksByTime(tracks, startHour, endHour)
    actualDrift,      \* drift comparison: the measured {speed, direction}
    weatherOutcome,   \* drift comparison: how the weather lookup of the point went
    modelDrift,       \* drift comparison: weatherData[index], or undefined
    driftError,       \* calculateDriftError(actualDrift, modelDrift)
    modelAccuracy,    \* the entry of modelAccuracyData for the point
    fleet,            \* region scenario: the balloon list
    balloonRegions,   \* getRegion(currentPosition) of every balloon of the fleet
    regionCounts,     \* calculateRegionalDistribution(fleet)
    cellSize,         \* calculateDensity: gridSize in degrees
    densityCells,     \* calculateDensity(fleet, cellSize)
    heap,             \* the arrays in memory: heap[r] is the content of the array of reference r
    allRef,           \* reference of the array allHoursData
    fleetRef,         \* reference of the balloon list processBalloonData returned, or 0
    trackRefs,        \* the map processConstellationHistory returned: id -> reference
    argsSeen,         \* per array given to an operation, its content when it was given
    called,           \* the operations called so far
    returned,         \* per operation called, what it returned
    clock,            \* weather service: Date.now(), in ms
    weatherCache,     \* weather service: the Map weatherCache, key -> {data, timestamp}
    lastApiCall,      \* weather service: the module variable lastApiCall
    requests,         \* the requests sent to the weather API so far, oldest first
    tasks,            \* the weather calls suspended at an await
    lookup,           \* what the last weather lookup returned, and from which entry
    selectedHourRef,  \* App: selectedHourRef.current, in 1/100000 hour
    selectedHour,     \* App state: selectedHour, in 1/100000 hour
    isPlaying,        \* App state: isPlaying
    activeViewTab,    \* App state: activeViewTab
    userActions,      \* how many buttons, slider moves and tabs the user has used
    mainIndex,        \* detectClusters step by step: position of the main loop in balloons
    pendingQueue,     \* expandCluster: queue
    growing,          \* expandCluster: cluster
    emitted,          \* detectClusters: clusters
    visitedSet,       \* detectClusters: the Set visited
    clusteredSet,     \* detectClusters: the Set clustered
    pushedFor         \* ids of the balloons whose neighbours were put on a queue, in order

vars == <<pc, vData, vHour, vResult, allHoursData, processed, tracks,
          inputBalloons, reorderedBalloons, dbscanConfig, foundClusters, foundReordered,
          fetches, loading, error, denseRegions, stats, cycles,
          segmentFrom, segmentTo, segmentSpeed,
          movement, selectedTrack, trackSpeeds, totalDistance, trackStats, driftVector,
          isEddy, isTurbulent, timeWindow, filteredTracks,
          actualDrift, weatherOutcome, modelDrift, driftError, modelAccuracy,
          fleet, balloonRegions, regionCounts, cellSize, densityCells,
          heap, allRef, fleetRef, trackRefs, argsSeen, called, returned,
          clock, weatherCache, lastApiCall, requests, tasks, lookup,
          selectedHourRef, selectedHour, isPlaying, activeViewTab, userActions,
          mainIndex, pendingQueue, growing, emitted, visitedSet, clusteredSet, pushedFor>>

validatorVars == <<vData, vHour, vResult>>

builderVars == <<allHoursData, processed, tracks>>

clusterVars == <<inputBalloons, reorderedBalloons, dbscanConfig, foundClusters, foundReordered>>

appVars == <<fetches, loading, error, denseRegions, stats>>

refreshVars == <<cycles>>

\* the variables of the scenarios of the analysis functions
segmentVars == <<segmentFrom, segmentTo, segmentSpeed>>

motionVars == <<movement, selectedTrack, trackSpeeds, totalDistance, trackStats, driftVector,
                isEddy, isTurbulent, timeWindow, filteredTracks>>

driftVars == <<actualDrift, weatherOutcome, modelDrift, driftError, modelAccuracy>>

regionVars == <<fleet, balloonRegions, regionCounts, cellSize, densityCells>>

frameVars == <<heap, allRef, fleetRef, trackRefs, argsSeen, called, returned>>

weatherVars == <<clock, weatherCache, lastApiCall, requests, tasks, lookup>>

playbackVars == <<selectedHourRef, selectedHour, isPlaying, activeViewTab, userActions>>

runVars == <<mainIndex, pendingQueue, growing, emitted, visitedSet, clusteredSet, pushedFor>>

sessionVars == <<weatherVars, playbackVars, runVars>>

analysisVars ==
    <<refreshVars, segmentVars, motionVars, driftVars, regionVars, frameVars, sessionVars>>

\* the analysis variables while no analysis scenario is modelled
RefreshIdle == cycles = <<>>

SegmentIdle ==
    /\ segmentFrom = [t |-> "null"] /\ segmentTo = [t |-> "null"] /\ segmentSpeed = <<0, 1>>

MotionIdle ==
    /\ movement = <<>> /\ selectedTrack = <<>> /\ trackSpeeds = <<>> /\ totalDistance = <<>>
    /\ trackStats = <<>> /\ driftVector = <<>> /\ isEddy = FALSE /\ isTurbulent = FALSE
    /\ timeWindow = <<>> /\ filteredTracks = <<>>

DriftIdle ==
    /\ actualDrift = <<>> /\ weatherOutcome = <<>> /\ modelDrift = <<>>
    /\ driftError = <<>> /\ modelAccuracy = <<>>

RegionIdle ==
    /\ fleet = <<>> /\ balloonRegions = <<>> /\ regionCounts = <<>>
    /\ cellSize = 10 /\ densityCells = <<>>

FrameIdle ==
    /\ heap = <<>> /\ allRef = 0 /\ fleetRef = 0 /\ trackRefs = <<>>
    /\ argsSeen = <<>> /\ called = {} /\ returned = <<>>

\* no weather lookup has returned yet
NoReturn ==
    [by |-> "none", path |-> "none", alt |-> 0, level |-> "none", hit |-> FALSE, age |-> 0]

WeatherIdle ==
    /\ clock = 0 /\ weatherCache = <<>> /\ lastApiCall = 0
    /\ requests = <<>> /\ tasks = <<>> /\ lookup = NoReturn

PlaybackIdle ==
    /\ selectedHourRef = 2300000 /\ selectedHour = 2300000
    /\ isPlaying = FALSE /\ activeViewTab = "flow" /\ userActions = 0

RunIdle ==
    /\ mainIndex = 0 /\ pendingQueue = <<>> /\ growing = <<>> /\ emitted = <<>>
    /\ visitedSet = {} /\ clusteredSet = {} /\ pushedFor = <<>>

SessionIdle == WeatherIdle /\ PlaybackIdle /\ RunIdle

AnalysisIdle ==
    /\ RefreshIdle /\ SegmentIdle /\ MotionIdle /\ DriftIdle /\ RegionIdle /\ FrameIdle
    /\ SessionIdle

\* the App state as useState creates it
AppIdle ==
    /\ fetches = <<>>
    /\ loading = TRUE
    /\ error = "null"
    /\ denseRegions = <<>>
    /\ stats = [totalBalloons |-> 0, hoursWithData |-> 0, avgAltitude |-> 0]

\* the cluster variables while no detection is modelled
ClusterIdle ==
    /\ inputBalloons = <<>> /\ reorderedBalloons = <<>>
    /\ foundClusters = <<>> /\ foundReordered = <<>>
    /\ dbscanConfig = [eps |-> 1000, minPts |-> 15, altitudeWeight |-> 3]

-----------------------------------------------------------------------------
(* Bounds of the model *)

\* longest raw payload array of one hour
MaxEntries == 3

\* largest hour offset passed to validateBalloonData
MaxValidateHour == 1

\* longest list of snapshots given to the builders
MaxSnapshots == 3

\* largest hour offset of a snapshot given to the builders
MaxInputHour == 2

\* longest balloon list given to detectClusters
MaxBalloons == 7

\* largest minPts given to detectClusters
MaxMinPts == 3

\* the first hour of the loop of fetchAllBalloonData, 24 in the code:
\* for (let hour = 24; hour >= 0; hour--)
FetchOldestHour == 2

-----------------------------------------------------------------------------
(* JSON values as delivered by response.json() *)

Fix(k) == 10 * k

JNum(n) == [t |-> "number", v |-> n, items |-> <<>>]

JStr(c) == [t |-> "string", v |-> c, items |-> <<>>]

JNull == [t |-> "null", v |-> 0, items |-> <<>>]

JObj == [t |-> "object", v |-> 0, items |-> <<>>]

JArr(s) == [t |-> "array", v |-> 0, items |-> s]

\* the JavaScript value null returned by the functions of the data service
Null == [t |-> "null", v |-> 0, items |-> <<>>]

\* Array.isArray(x)
IsArray(x) == x.t = "array"

\* typeof x === 'number'
IsNumber(x) == x.t = "number"

\* !x is false: null, 0 and the empty string are falsy, arrays and objects are truthy
Truthy(x) ==
    CASE x.t = "null" -> FALSE
      [] x.t = "number" -> x.v # 0
      [] x.t = "string" -> x.v # 0
      [] OTHER -> TRUE

-----------------------------------------------------------------------------
(* validateBalloonData, data service *)

\* validateEntry with the range test written with <= and >=: the entries on
\* the ends of the ranges are dropped
validateEntryOpenRange(entry, index, hour) ==
    IF ~IsArray(entry) \/ Len(entry.items) < 3
    THEN Null
    ELSE LET lat == entry.items[1]
             lon == entry.items[2]
             altKm == entry.items[3]
         IN  IF ~IsNumber(lat) \/ ~IsNumber(lon) \/ ~IsNumber(altKm)
             THEN Null
             ELSE IF lat.v <= Fix(-90) \/ lat.v >= Fix(90)
                     \/ lon.v <= Fix(-180) \/ lon.v >= Fix(180)
             THEN Null
             ELSE [t |-> "balloon", index |-> index, lat |-> lat.v, lon |-> lon.v,
                   alt |-> altKm.v * 1000, hour |-> hour]

\* validateEntry without the upper test of the longitude
validateEntryNoLonMax(entry, index, hour) ==
    IF ~IsArray(entry) \/ Len(entry.items) < 3
    THEN Null
    ELSE LET lat == entry.items[1]
             lon == entry.items[2]
             altKm == entry.items[3]
         IN  IF ~IsNumber(lat) \/ ~IsNumber(lon) \/ ~IsNumber(altKm)
             THEN Null
             ELSE IF lat.v < Fix(-90) \/ lat.v > Fix(90) \/ lon.v < Fix(-180)
             THEN Null
             ELSE [t |-> "balloon", index |-> index, lat |-> lat.v, lon |-> lon.v,
                   alt |-> altKm.v * 1000, hour |-> hour]

\* the callback of data.map: one raw entry at 0-based position index
validateEntry(entry, index, hour) ==
    IF ~IsArray(entry) \/ Len(entry.items) < 3
    THEN Null
    ELSE LET lat == entry.items[1]
             lon == entry.items[2]
             altKm == entry.items[3]
         IN  IF ~IsNumber(lat) \/ ~IsNumber(lon) \/ ~IsNumber(altKm)
             THEN Null
             ELSE IF lat.v < Fix(-90) \/ lat.v > Fix(90)
                     \/ lon.v < Fix(-180) \/ lon.v > Fix(180)
             THEN Null
             ELSE [t |-> "balloon", index |-> index, lat |-> lat.v, lon |-> lon.v,
                   alt |-> altKm.v * 1000, hour |-> hour]

\* .filter(Boolean) over the mapped entries: the objects stay, the nulls go
FilterBoolean(seq) == SelectSeq(seq, LAMBDA e : e.t # "null")

\* validateBalloonData numbering the entries after the filter: the index is
\* the position among the survivors
validateBalloonDataFilterFirst(data, hour) ==
    IF ~Truthy(data) \/ ~IsArray(data)
    THEN Null
    ELSE LET mapped == FilterBoolean(
                 [i \in 1..Len(data.items) |-> validateEntry(data.items[i], i - 1, hour)])
         IN  [t |-> "snapshot", hour |-> hour,
              balloons |-> [j \in 1..Len(mapped) |-> [mapped[j] EXCEPT !.index = j - 1]]]

validateBalloonData(data, hour) ==
    IF ~Truthy(data) \/ ~IsArray(data)
    THEN Null
    ELSE [t |-> "snapshot", hour |-> hour,
          balloons |-> FilterBoolean(
              [i \in 1..Len(data.items) |-> validateEntry(data.items[i], i - 1, hour)])]

-----------------------------------------------------------------------------
(* Helpers for JavaScript arrays and objects *)

\* `balloon-${index}`: one id per index
BalloonId(index) == <<"balloon", index>>

\* array.find(data => data?.hour === hour): position of the first snapshot
\* of that hour, 0 when there is none
FindHour(all, hour) ==
    IF \E i \in 1..Len(all) : all[i].hour = hour
    THEN CHOOSE i \in 1..Len(all) :
             /\ all[i].hour = hour
             /\ \A k \in 1..(i - 1) : all[k].hour # hour
    ELSE 0

\* position of the last snapshot of that hour, 0 when there is none
FindHourLast(all, hour) ==
    IF \E i \in 1..Len(all) : all[i].hour = hour
    THEN CHOOSE i \in 1..Len(all) :
             /\ all[i].hour = hour
             /\ \A k \in (i + 1)..Len(all) : all[k].hour # hour
    ELSE 0

\* insertion of x behind every element whose hourIndex is not larger: with
\* SortByHourIndex, the stable ascending sort((a, b) => a.hourIndex - b.hourIndex)
RECURSIVE InsertByHourIndex(_, _)
InsertByHourIndex(sorted, x) ==
    IF sorted = <<>> THEN <<x>>
    ELSE IF sorted[Len(sorted)].hourIndex <= x.hourIndex THEN Append(sorted, x)
    ELSE Append(InsertByHourIndex(SubSeq(sorted, 1, Len(sorted) - 1), x), sorted[Len(sorted)])

RECURSIVE SortByHourIndex(_)
SortByHourIndex(seq) ==
    IF seq = <<>> THEN <<>>
    ELSE InsertByHourIndex(SortByHourIndex(SubSeq(seq, 1, Len(seq) - 1)), seq[Len(seq)])

\* the same for sort((a, b) => a.hour - b.hour)
RECURSIVE InsertByHour(_, _)
InsertByHour(sorted, x) ==
    IF sorted = <<>> THEN <<x>>
    ELSE IF sorted[Len(sorted)].hour <= x.hour THEN Append(sorted, x)
    ELSE Append(InsertByHour(SubSeq(sorted, 1, Len(sorted) - 1), x), sorted[Len(sorted)])

RECURSIVE SortByHour(_)
SortByHour(seq) ==
    IF seq = <<>> THEN <<>>
    ELSE InsertByHour(SortByHour(SubSeq(seq, 1, Len(seq) - 1)), seq[Len(seq)])

-----------------------------------------------------------------------------
(* processConstellationHistory, trajectory engine *)

\* the first hour of the loop: for (let hour = 24; hour >= 0; hour--)
OldestHour == 24

\* the hourIndex of the appended copy of the hour-0 position
FutureHourIndex == 25

\* { id: balloonId, ...balloon, hourIndex }
TrackPoint(balloon, hourIndex) ==
    [id |-> BalloonId(balloon.index), index |-> balloon.index, lat |-> balloon.lat,
     lon |-> balloon.lon, alt |-> balloon.alt, hour |-> balloon.hour,
     hourIndex |-> hourIndex]

\* if (!tracks[id]) tracks[id] = []; tracks[id].push(point)
PushPoint(trk, balloon, hourIndex) ==
    LET id == BalloonId(balloon.index)
        old == IF id \in DOMAIN trk THEN trk[id] ELSE <<>>
    IN  (id :> Append(old, TrackPoint(balloon, hourIndex))) @@ trk

\* hourData.balloons.forEach(...) of the first loop, from position i on
RECURSIVE PushSnapshot(_, _, _, _)
PushSnapshot(trk, balloons, i, hourIndex) ==
    IF i > Len(balloons) THEN trk
    ELSE IF BalloonId(balloons[i].index) \in DOMAIN trk
    THEN PushSnapshot(PushPoint(trk, balloons[i], hourIndex), balloons, i + 1, hourIndex)
    ELSE PushSnapshot(PushPoint((BalloonId(balloons[i].index) :> <<>>) @@ trk,
                                balloons[i], hourIndex),
                      balloons, i + 1, hourIndex)

\* the first loop, from hour down to 0: the first snapshot found for the
\* hour is pushed, an hour without snapshot is skipped
RECURSIVE BuildRealPoints(_, _, _)
BuildRealPoints(all, hour, trk) ==
    IF hour < 0 THEN trk
    ELSE LET at == FindHour(all, hour)
         IN  BuildRealPoints(all, hour - 1,
                 IF at = 0 THEN trk ELSE PushSnapshot(trk, all[at].balloons, 1, hour))

\* hour0Data.balloons.forEach(...): the copy of the hour-0 position, pushed
\* to the tracks that exist
RECURSIVE PushFuture(_, _, _)
PushFuture(trk, balloons, i) ==
    IF i > Len(balloons) THEN trk
    ELSE PushFuture(
             IF BalloonId(balloons[i].index) \in DOMAIN trk
             THEN PushPoint(trk, balloons[i], FutureHourIndex) ELSE trk,
             balloons, i + 1)

AddFuturePoints(all, trk) ==
    LET at == FindHour(all, 0)
    IN  IF at = 0 THEN trk ELSE PushFuture(trk, all[at].balloons, 1)

\* track.sort((a, b) => a.hourIndex - b.hourIndex) on every track
SortTracks(trk) == [id \in DOMAIN trk |-> SortByHourIndex(trk[id])]

\* the first loop running over every snapshot of the list instead of the
\* first one of each hour
RECURSIVE BuildEverySnapshot(_, _, _)
BuildEverySnapshot(all, i, trk) ==
    IF i > Len(all) THEN trk
    ELSE BuildEverySnapshot(all, i + 1, PushSnapshot(trk, all[i].balloons, 1, all[i].hour))

processConstellationHistoryEverySnapshot(all) ==
    SortTracks(AddFuturePoints(all, BuildEverySnapshot(all, 1, <<>>)))

\* the first loop stopping in front of hour 0
RECURSIVE BuildPastPoints(_, _, _)
BuildPastPoints(all, hour, trk) ==
    IF hour < 1 THEN trk
    ELSE LET at == FindHour(all, hour)
         IN  BuildPastPoints(all, hour - 1,
                 IF at = 0 THEN trk ELSE PushSnapshot(trk, all[at].balloons, 1, hour))

processConstellationHistorySkipNow(all) ==
    SortTracks(AddFuturePoints(all, BuildPastPoints(all, OldestHour, <<>>)))

\* the last snapshot of an hour taken instead of the first
RECURSIVE BuildLastSnapshots(_, _, _)
BuildLastSnapshots(all, hour, trk) ==
    IF hour < 0 THEN trk
    ELSE LET at == FindHourLast(all, hour)
         IN  BuildLastSnapshots(all, hour - 1,
                 IF at = 0 THEN trk ELSE PushSnapshot(trk, all[at].balloons, 1, hour))

processConstellationHistoryLastWins(all) ==
    SortTracks(AddFuturePoints(all, BuildLastSnapshots(all, OldestHour, <<>>)))

processConstellationHistory(all) ==
    SortTracks(AddFuturePoints(all, BuildRealPoints(all, OldestHour, <<>>)))

-----------------------------------------------------------------------------
(* processBalloonData, data service *)

\* posData of one validated balloon
PosData(balloon) ==
    [id |-> BalloonId(balloon.index), lat |-> balloon.lat, lon |-> balloon.lon,
     alt |-> balloon.alt, hour |-> balloon.hour]

\* the body of hourData.balloons.forEach: balloonMap is kept as the list of
\* its keys in insertion order and the entry of each key
GroupPosition(map, balloon) ==
    LET id == BalloonId(balloon.index)
        isNew == id \notin DOMAIN map.byId
        old == IF isNew THEN [positions |-> <<>>, positionsArray |-> <<>>] ELSE map.byId[id]
        pos == PosData(balloon)
        entry == [positions |-> (balloon.hour :> pos) @@ old.positions,
                  positionsArray |-> Append(old.positionsArray, pos)]
    IN  [order |-> IF isNew THEN Append(map.order, id) ELSE map.order,
         byId |-> (id :> entry) @@ map.byId]

RECURSIVE GroupSnapshot(_, _, _)
GroupSnapshot(map, balloons, i) ==
    IF i > Len(balloons) THEN map
    ELSE IF BalloonId(balloons[i].index) \in DOMAIN map.byId
    THEN GroupSnapshot(GroupPosition(map, balloons[i]), balloons, i + 1)
    ELSE GroupSnapshot(
             GroupPosition([order |-> Append(map.order, BalloonId(balloons[i].index)),
                            byId |-> (BalloonId(balloons[i].index)
                                        :> [positions |-> <<>>, positionsArray |-> <<>>])
                                     @@ map.byId],
                           balloons[i]),
             balloons, i + 1)

\* allHoursData.forEach(...), from position i on
RECURSIVE GroupAll(_, _, _)
GroupAll(map, all, i) ==
    IF i > Len(all) THEN map
    ELSE GroupAll(GroupSnapshot(map, all[i].balloons, 1), all, i + 1)

\* the callback without the sort of positionsArray
FinishBalloonUnsorted(id, entry) ==
    [id |-> id,
     positions |-> entry.positionsArray,
     positionsByHour |-> entry.positions,
     currentPosition |-> IF 0 \in DOMAIN entry.positions
                         THEN entry.positions[0] ELSE entry.positionsArray[1],
     trajectory |-> [j \in 1..Len(entry.positionsArray) |->
                        <<entry.positionsArray[j].lat, entry.positionsArray[j].lon>>]]

\* the callback of Array.from(balloonMap.values()).map
FinishBalloon(id, entry) ==
    LET sortedPositions == SortByHour(entry.positionsArray)
    IN  [id |-> id,
         positions |-> sortedPositions,
         positionsByHour |-> entry.positions,
         currentPosition |-> IF 0 \in DOMAIN entry.positions
                             THEN entry.positions[0] ELSE sortedPositions[1],
         trajectory |-> [j \in 1..Len(sortedPositions) |->
                            <<sortedPositions[j].lat, sortedPositions[j].lon>>]]

processBalloonData(all) ==
    LET map == GroupAll([order |-> <<>>, byId |-> <<>>], all, 1)
    IN  [j \in 1..Len(map.order) |-> FinishBalloon(map.order[j], map.byId[map.order[j]])]

-----------------------------------------------------------------------------
(* detectClusters, analytics service                                       *)
(*                                                                         *)
(* A position holds lat and lon in tenths of a degree and alt in tenths of *)
(* a metre (a multiple of 100 m).  Distances are compared squared, in      *)
(* units of 100 m, so that no square root is taken:                        *)
(* sqrt(h^2 + (v*w)^2) <= eps  iff  16*h^2 + (v*4w)^2 <= 16*eps^2.         *)
(* altitudeWeight is held as 4*w (3 is the default 0.75).  The haversine   *)
(* distance is taken in its small-separation form near the equator, where  *)
(* one tenth of a degree is 11.1 km in both directions; on the positions   *)
(* and eps values of the scenarios it decides dist <= eps as the           *)
(* floating-point haversine formula does.                                  *)
(***************************************************************************)

\* R * PI / 180 / 10 km in units of 100 m: the length of a tenth of a degree
UnitsPerTenthDegree == 111

Abs(x) == IF x < 0 THEN -x ELSE x

\* the square of calculateDistance(pos1, pos2), in (100 m)^2
calculateDistanceSq(pos1, pos2) ==
    UnitsPerTenthDegree * UnitsPerTenthDegree
        * ((pos2.lat - pos1.lat) * (pos2.lat - pos1.lat)
           + (pos2.lon - pos1.lon) * (pos2.lon - pos1.lon))

\* 16 times the square of calculate3DDistance(pos1, pos2, altitudeWeight), in (100 m)^2
calculate3DDistanceSq(pos1, pos2, altitudeWeight) ==
    LET verticalDist == Abs(pos1.alt - pos2.alt) \div 1000
    IN  16 * calculateDistanceSq(pos1, pos2)
            + (verticalDist * altitudeWeight) * (verticalDist * altitudeWeight)

\* dist <= eps, eps in km
WithinEps(pos1, pos2, config) ==
    calculate3DDistanceSq(pos1, pos2, config.altitudeWeight)
        <= 16 * (10 * config.eps) * (10 * config.eps)

getNeighbors(balloons, balloon, config) ==
    SelectSeq(balloons, LAMBDA other :
        /\ other.id # balloon.id
        /\ WithinEps(balloon.currentPosition, other.currentPosition, config))

\* the while loop of expandCluster without the test of the clustered set
RECURSIVE ExpandLoopNoClaimTest(_, _, _, _, _, _)
ExpandLoopNoClaimTest(balloons, config, queue, cluster, visited, clustered) ==
    IF queue = <<>>
    THEN [cluster |-> cluster, visited |-> visited, clustered |-> clustered]
    ELSE LET current == Head(queue)
             rest == Tail(queue)
             currentNeighbors == getNeighbors(balloons, current, config)
         IN  IF current.id \in visited
             THEN ExpandLoopNoClaimTest(balloons, config, rest, Append(cluster, current),
                                        visited, clustered \cup {current.id})
             ELSE ExpandLoopNoClaimTest(balloons, config,
                      IF Len(currentNeighbors) >= config.minPts
                      THEN rest \o currentNeighbors ELSE rest,
                      Append(cluster, current),
                      visited \cup {current.id}, clustered \cup {current.id})

\* the while loop of expandCluster never pushing the neighbours of a
\* reached core point
RECURSIVE ExpandLoopNoPropagation(_, _, _, _, _, _)
ExpandLoopNoPropagation(balloons, config, queue, cluster, visited, clustered) ==
    IF queue = <<>>
    THEN [cluster |-> cluster, visited |-> visited, clustered |-> clustered]
    ELSE LET current == Head(queue)
             rest == Tail(queue)
         IN  IF current.id \in clustered
             THEN ExpandLoopNoPropagation(balloons, config, rest, cluster, visited, clustered)
             ELSE ExpandLoopNoPropagation(balloons, config, rest, Append(cluster, current),
                      visited \cup {current.id}, clustered \cup {current.id})

\* the while loop of expandCluster pushing the neighbours of every balloon
\* it reaches, core point or not
RECURSIVE ExpandLoopBorderPropagates(_, _, _, _, _, _)
ExpandLoopBorderPropagates(balloons, config, queue, cluster, visited, clustered) ==
    IF queue = <<>>
    THEN [cluster |-> cluster, visited |-> visited, clustered |-> clustered]
    ELSE LET current == Head(queue)
             rest == Tail(queue)
             currentNeighbors == getNeighbors(balloons, current, config)
         IN  IF current.id \in clustered
             THEN ExpandLoopBorderPropagates(balloons, config, rest, cluster, visited,
                                             clustered)
             ELSE IF current.id \in visited
             THEN ExpandLoopBorderPropagates(balloons, config, rest,
                      Append(cluster, current), visited, clustered \cup {current.id})
             ELSE ExpandLoopBorderPropagates(balloons, config, rest \o currentNeighbors,
                      Append(cluster, current),
                      visited \cup {current.id}, clustered \cup {current.id})

\* the while loop of expandCluster: queue.shift() until the queue is empty
RECURSIVE ExpandLoop(_, _, _, _, _, _)
ExpandLoop(balloons, config, queue, cluster, visited, clustered) ==
    IF queue = <<>>
    THEN [cluster |-> cluster, visited |-> visited, clustered |-> clustered]
    ELSE LET current == Head(queue)
             rest == Tail(queue)
             currentNeighbors == getNeighbors(balloons, current, config)
         IN  IF current.id \in clustered
             THEN ExpandLoop(balloons, config, rest, cluster, visited, clustered)
             ELSE IF current.id \in visited
             THEN ExpandLoop(balloons, config, rest, Append(cluster, current),
                             visited, clustered \cup {current.id})
             ELSE ExpandLoop(balloons, config,
                      IF Len(currentNeighbors) >= config.minPts
                      THEN rest \o currentNeighbors ELSE rest,
                      Append(cluster, current),
                      visited \cup {current.id}, clustered \cup {current.id})

expandCluster(balloons, config, balloon, neighbors, visited, clustered) ==
    ExpandLoop(balloons, config, neighbors, <<balloon>>, visited, clustered \cup {balloon.id})

RECURSIVE SumLat(_)
SumLat(cluster) ==
    IF cluster = <<>> THEN 0 ELSE Head(cluster).currentPosition.lat + SumLat(Tail(cluster))

RECURSIVE SumLon(_)
SumLon(cluster) ==
    IF cluster = <<>> THEN 0 ELSE Head(cluster).currentPosition.lon + SumLon(Tail(cluster))

\* the mean position, each coordinate as <<sum, number of members>>
calculateCenterPoint(cluster) ==
    [lat |-> <<SumLat(cluster), Len(cluster)>>, lon |-> <<SumLon(cluster), Len(cluster)>>]

\* balloons.forEach of the main loop, from position i on
RECURSIVE MainLoop(_, _, _, _, _, _)
MainLoop(balloons, config, i, clusters, visited, clustered) ==
    IF i > Len(balloons) THEN clusters
    ELSE LET balloon == balloons[i]
             neighbors == getNeighbors(balloons, balloon, config)
             grown == expandCluster(balloons, config, balloon, neighbors,
                                    visited \cup {balloon.id}, clustered)
         IN  IF balloon.id \in visited
             THEN MainLoop(balloons, config, i + 1, clusters, visited, clustered)
             ELSE IF Len(neighbors) < config.minPts
             THEN MainLoop(balloons, config, i + 1, clusters,
                           visited \cup {balloon.id}, clustered)
             ELSE MainLoop(balloons, config, i + 1,
                      IF Len(grown.cluster) >= config.minPts
                      THEN Append(clusters, [center |-> calculateCenterPoint(grown.cluster),
                                             count |-> Len(grown.cluster),
                                             balloons |-> grown.cluster])
                      ELSE clusters,
                      grown.visited, grown.clustered)

detectClusters(balloons, config) == MainLoop(balloons, config, 1, <<>>, {}, {})

-----------------------------------------------------------------------------
(* Statistics computed by loadBalloonData, analytics service *)

\* Math.round of the fraction num / den of two representations, den > 0
MathRound(num, den) == (2 * num + den) \div (2 * den)

\* .map(b => b.currentPosition.alt).filter(alt => alt > 0)
PositiveAltitudes(balloons) ==
    SelectSeq([j \in 1..Len(balloons) |-> balloons[j].currentPosition.alt],
              LAMBDA alt : alt > 0)

\* the stable ascending sort((a, b) => a - b) of numbers
RECURSIVE InsertAscending(_, _)
InsertAscending(sorted, x) ==
    IF sorted = <<>> THEN <<x>>
    ELSE IF sorted[Len(sorted)] <= x THEN Append(sorted, x)
    ELSE Append(InsertAscending(SubSeq(sorted, 1, Len(sorted) - 1), x), sorted[Len(sorted)])

RECURSIVE SortAscending(_)
SortAscending(seq) ==
    IF seq = <<>> THEN <<>>
    ELSE InsertAscending(SortAscending(SubSeq(seq, 1, Len(seq) - 1)), seq[Len(seq)])

RECURSIVE SumOf(_)
SumOf(seq) == IF seq = <<>> THEN 0 ELSE Head(seq) + SumOf(Tail(seq))

\* calculateAltitudeStats without the distribution bins; avg is kept as
\* <<sum, number of altitudes>>
calculateAltitudeStats(balloons) ==
    LET altitudes == SortAscending(PositiveAltitudes(balloons))
    IN  IF Len(altitudes) = 0
        THEN [min |-> 0, max |-> 0, avg |-> <<0, 1>>, median |-> 0]
        ELSE [min |-> altitudes[1],
              max |-> altitudes[Len(altitudes)],
              avg |-> <<SumOf(altitudes), Len(altitudes)>>,
              median |-> altitudes[(Len(altitudes) \div 2) + 1]]

\* getRegion(position)
getRegion(position) ==
    LET lat == position.lat
        lon == position.lon
    IN  IF lon >= Fix(-180) /\ lon <= Fix(-70)
        THEN (IF lat >= Fix(15) /\ lat <= Fix(75) THEN "northAmerica" ELSE "atlantic")
        ELSE IF lon >= Fix(-70) /\ lon <= Fix(20)
        THEN "atlantic"
        ELSE IF lon >= Fix(20) /\ lon <= Fix(60)
        THEN (IF lat >= Fix(35) /\ lat <= Fix(75) THEN "europe"
              ELSE IF lat >= 0 /\ lat <= Fix(35) THEN "other"
              ELSE "indian")
        ELSE IF lon >= Fix(60) /\ lon <= Fix(150)
        THEN (IF lat >= Fix(10) THEN "asia" ELSE "indian")
        ELSE "pacific"

\* CountedRegion with the asia test written lat > 10
CountedRegionStrictAsia(lat, lon) ==
    IF lon >= Fix(-180) /\ lon <= Fix(-70)
    THEN (IF lat >= Fix(15) /\ lat <= Fix(75) THEN "northAmerica" ELSE "atlantic")
    ELSE IF lon >= Fix(-70) /\ lon <= Fix(20)
    THEN "atlantic"
    ELSE IF lon >= Fix(20) /\ lon <= Fix(60)
    THEN (IF lat >= Fix(35) /\ lat <= Fix(75) THEN "europe"
          ELSE IF lat >= 0 /\ lat <= Fix(35) THEN "other"
          ELSE "indian")
    ELSE IF lon >= Fix(60) /\ lon <= Fix(150)
    THEN (IF lat > Fix(10) THEN "asia" ELSE "indian")
    ELSE "pacific"

\* the region counter incremented by the branches of calculateRegionalDistribution
CountedRegion(lat, lon) ==
    IF lon >= Fix(-180) /\ lon <= Fix(-70)
    THEN (IF lat >= Fix(15) /\ lat <= Fix(75) THEN "northAmerica" ELSE "atlantic")
    ELSE IF lon >= Fix(-70) /\ lon <= Fix(20)
    THEN "atlantic"
    ELSE IF lon >= Fix(20) /\ lon <= Fix(60)
    THEN (IF lat >= Fix(35) /\ lat <= Fix(75) THEN "europe"
          ELSE IF lat >= 0 /\ lat <= Fix(35) THEN "other"
          ELSE "indian")
    ELSE IF lon >= Fix(60) /\ lon <= Fix(150)
    THEN (IF lat >= Fix(10) THEN "asia" ELSE "indian")
    ELSE "pacific"

\* balloons.forEach of calculateRegionalDistribution, from position i on
RECURSIVE CountRegions(_, _, _)
CountRegions(regions, balloons, i) ==
    IF i > Len(balloons) THEN regions
    ELSE LET lat == balloons[i].currentPosition.lat
             lon == balloons[i].currentPosition.lon
             hem == IF lat >= 0 THEN "northernHem" ELSE "southernHem"
             reg == CountedRegion(lat, lon)
         IN  CountRegions([k \in DOMAIN regions |->
                              IF k = hem \/ k = reg THEN regions[k] + 1 ELSE regions[k]],
                          balloons, i + 1)

calculateRegionalDistribution(balloons) ==
    CountRegions([northernHem |-> 0, southernHem |-> 0, pacific |-> 0, atlantic |-> 0,
                  indian |-> 0, northAmerica |-> 0, europe |-> 0, asia |-> 0, other |-> 0],
                 balloons, 1)

\* GridFloor rounding towards zero instead of down
GridTruncate(x, gridSize) ==
    (IF x < 0 THEN -((-x) \div Fix(gridSize)) ELSE x \div Fix(gridSize)) * Fix(gridSize)

\* Math.floor(x / gridSize) * gridSize on representations, gridSize in degrees
GridFloor(x, gridSize) == (x \div Fix(gridSize)) * Fix(gridSize)

\* balloons.forEach of calculateDensity, from position i on: grid is the
\* list of its cells in the order of their creation
RECURSIVE FillGrid(_, _, _, _)
FillGrid(grid, balloons, gridSize, i) ==
    IF i > Len(balloons) THEN grid
    ELSE LET gridLat == GridFloor(balloons[i].currentPosition.lat, gridSize)
             gridLon == GridFloor(balloons[i].currentPosition.lon, gridSize)
             known == \E c \in 1..Len(grid) : grid[c].lat = gridLat /\ grid[c].lon = gridLon
             opened == IF known THEN grid
                       ELSE Append(grid, [lat |-> gridLat, lon |-> gridLon, count |-> 0])
         IN  FillGrid([c \in 1..Len(opened) |->
                          IF opened[c].lat = gridLat /\ opened[c].lon = gridLon
                          THEN [opened[c] EXCEPT !.count = @ + 1] ELSE opened[c]],
                      balloons, gridSize, i + 1)

calculateDensity(balloons, gridSize) == FillGrid(<<>>, balloons, gridSize, 1)

\* the stable sort((a, b) => b.count - a.count)
RECURSIVE InsertByCountDesc(_, _)
InsertByCountDesc(sorted, x) ==
    IF sorted = <<>> THEN <<x>>
    ELSE IF sorted[Len(sorted)].count >= x.count THEN Append(sorted, x)
    ELSE Append(InsertByCountDesc(SubSeq(sorted, 1, Len(sorted) - 1), x), sorted[Len(sorted)])

RECURSIVE SortByCountDesc(_)
SortByCountDesc(seq) ==
    IF seq = <<>> THEN <<>>
    ELSE InsertByCountDesc(SortByCountDesc(SubSeq(seq, 1, Len(seq) - 1)), seq[Len(seq)])

\* densityGrid.sort(...).slice(0, 10)
TopDenseRegions(densityGrid) ==
    LET sorted == SortByCountDesc(densityGrid)
    IN  SubSeq(sorted, 1, IF Len(sorted) < 10 THEN Len(sorted) ELSE 10)

-----------------------------------------------------------------------------
(* fetchBalloonDataForHour and fetchAllBalloonData, data service *)

\* the states of the request of one hour: not yet settled, fetch() rejected,
\* or a response with its ok flag and its body
Pending == [kind |-> "pending", ok |-> FALSE, body |-> JNull]

NetworkError == [kind |-> "networkError", ok |-> FALSE, body |-> JNull]

Response(ok, body) == [kind |-> "response", ok |-> ok, body |-> body]

\* a body that response.json() cannot parse
JInvalid == [t |-> "invalid", v |-> 0, items |-> <<>>]

\* fetchBalloonDataForHour reading the body whatever the status
fetchBalloonDataForHourAnyStatus(settled, hour) ==
    IF settled.kind = "networkError" THEN Null
    ELSE IF settled.body.t = "invalid" THEN Null
    ELSE validateBalloonData(settled.body, hour)

\* the value fetchBalloonDataForHour(hour) resolves to, given how its
\* request settled
fetchBalloonDataForHour(settled, hour) ==
    IF settled.kind = "networkError" THEN Null
    ELSE IF ~settled.ok THEN Null
    ELSE IF settled.body.t = "invalid" THEN Null
    ELSE validateBalloonData(settled.body, hour)

\* results of Promise.all in the order the promises were pushed, from hour
\* down to 0, then .filter(Boolean)
RECURSIVE ValidResults(_, _)
ValidResults(settled, hour) ==
    IF hour < 0 THEN <<>>
    ELSE LET result == fetchBalloonDataForHour(settled[hour], hour)
         IN  (IF result.t = "null" THEN <<>> ELSE <<result>>) \o ValidResults(settled, hour - 1)

-----------------------------------------------------------------------------
(* Inputs of the validator scenario *)

\* raw latitude, longitude and altitude fields: in range, on the range's
\* ends, just outside it, and not a number
LatFields == {JNum(Fix(-91)), JNum(Fix(-90)), JNum(Fix(45)), JNum(Fix(90)), JNum(Fix(91)), JStr(1)}

LonFields == {JNum(Fix(-181)), JNum(Fix(-180)), JNum(Fix(-122)), JNum(0), JNum(Fix(180)), JNum(Fix(181)), JStr(2)}

AltFields == {JNum(105), JNum(Fix(5)), JNum(Fix(-5)), JNum(0), JStr(3), JNull}

\* raw entries: triples, a four-element entry, short arrays and non-arrays
RawEntries ==
    {JArr(<<a, b, c>>) : a \in LatFields, b \in LonFields, c \in AltFields}
    \cup {JArr(<<JNum(Fix(45)), JNum(Fix(-122)), JNum(105), JNum(7)>>),
          JArr(<<JNum(Fix(45)), JNum(Fix(-122))>>), JArr(<<>>),
          JNull, JObj, JNum(Fix(45)), JStr(1)}

\* the entries used to fill the payloads of length two and more
FillEntries ==
    {JArr(<<JNum(Fix(45)), JNum(Fix(-122)), JNum(105)>>),
     JArr(<<JNum(Fix(-90)), JNum(Fix(180)), JNum(Fix(-5))>>),
     JArr(<<JNum(Fix(91)), JNum(0), JNum(Fix(5))>>),
     JArr(<<JStr(1), JStr(2), JStr(3)>>),
     JArr(<<JNum(Fix(45)), JNum(Fix(-122))>>),
     JNull}

RawPayloads ==
    {JNull, JObj, JNum(0), JNum(Fix(3)), JStr(0), JStr(1), JArr(<<>>)}
    \cup {JArr(<<e>>) : e \in RawEntries}
    \cup UNION {{JArr(s) : s \in [1..n -> FillEntries]} : n \in 2..MaxEntries}

-----------------------------------------------------------------------------
(* Scenario: one call of validateBalloonData *)

InitValidate ==
    /\ pc = "start"
    /\ vData \in RawPayloads
    /\ vHour \in 0..MaxValidateHour
    /\ vResult = Null
    /\ allHoursData = <<>>
    /\ processed = <<>>
    /\ tracks = <<>>
    /\ ClusterIdle
    /\ AppIdle
    /\ AnalysisIdle

Validate ==
    /\ pc = "start"
    /\ vResult' = validateBalloonData(vData, vHour)
    /\ pc' = "done"
    /\ UNCHANGED <<vData, vHour>>
    /\ UNCHANGED <<builderVars, clusterVars, appVars>>
    /\ UNCHANGED analysisVars

NextValidate == Validate

SpecValidate == InitValidate /\ [][NextValidate]_vars

-----------------------------------------------------------------------------
(* Properties of validateBalloonData *)

\* the keep condition as the contract words it
Keepable(entry) ==
    /\ IsArray(entry)
    /\ Len(entry.items) >= 3
    /\ \A k \in 1..3 : IsNumber(entry.items[k])
    /\ entry.items[1].v >= Fix(-90) /\ entry.items[1].v <= Fix(90)
    /\ entry.items[2].v >= Fix(-180) /\ entry.items[2].v <= Fix(180)

\* the raw entries that are to survive, in order, as <<lat, lon, altitude in metres>>
ExpectedPositions(data) ==
    LET kept == SelectSeq(data.items, Keepable)
    IN  [j \in 1..Len(kept) |->
            <<kept[j].items[1].v, kept[j].items[2].v, kept[j].items[3].v * 1000>>]

ReturnedPositions(snapshot) ==
    [j \in 1..Len(snapshot.balloons) |->
        <<snapshot.balloons[j].lat, snapshot.balloons[j].lon, snapshot.balloons[j].alt>>]

ValidatedOk == pc = "done" /\ vResult.t = "snapshot"

\* C3: an array payload always yields a snapshot, whose positions are exactly
\* the raw entries that are arrays of at least three numbers with lat in
\* [-90,90] and lon in [-180,180], in order, with lat and lon unchanged and
\* the altitude multiplied by 1000; every other entry is dropped.
C3_KeepsExactlyWellFormed ==
    (pc = "done" /\ IsArray(vData)) =>
        /\ vResult.t = "snapshot"
        /\ vResult.hour = vHour
        /\ ReturnedPositions(vResult) = ExpectedPositions(vData)

\* the example of the contract: [91,0,5] and ["a","b","c"] go, [45,-122,10.5]
\* stays with altitude 10500 m
C3_Witness ==
    /\ ValidatedOk
    /\ vData = JArr(<<JArr(<<JNum(Fix(91)), JNum(0), JNum(Fix(5))>>),
                      JArr(<<JStr(1), JStr(2), JStr(3)>>),
                      JArr(<<JNum(Fix(45)), JNum(Fix(-122)), JNum(105)>>)>>)
    /\ ReturnedPositions(vResult) = << <<Fix(45), Fix(-122), Fix(10500)>> >>

\* C4: the index of a surviving entry is its 0-based position in the raw
\* array: the raw entry at that position is the one the survivor was made
\* from, and the survivors' indices are exactly the positions of the
\* keepable raw entries.
C4_IndexIsRawPosition ==
    ValidatedOk =>
        /\ \A j \in 1..Len(vResult.balloons) :
              LET b == vResult.balloons[j]
              IN  /\ b.index \in 0..(Len(vData.items) - 1)
                  /\ Keepable(vData.items[b.index + 1])
                  /\ vData.items[b.index + 1].items[1].v = b.lat
                  /\ vData.items[b.index + 1].items[2].v = b.lon
                  /\ vData.items[b.index + 1].items[3].v * 1000 = b.alt
        /\ {vResult.balloons[j].index : j \in 1..Len(vResult.balloons)}
              = {i - 1 : i \in {k \in 1..Len(vData.items) : Keepable(vData.items[k])}}

\* an entry was dropped in front of a survivor, whose index is therefore
\* larger than its position among the survivors
C4_Witness ==
    /\ ValidatedOk
    /\ \E j \in 1..Len(vResult.balloons) : vResult.balloons[j].index > j - 1

\* C5 as claimed: every returned position has lat in [-90,90], lon in
\* [-180,180], altitude >= 0 and hour offset >= 0.
C5_Original_AllRanges ==
    ValidatedOk =>
        \A j \in 1..Len(vResult.balloons) :
            LET b == vResult.balloons[j]
            IN  /\ b.lat >= Fix(-90) /\ b.lat <= Fix(90)
                /\ b.lon >= Fix(-180) /\ b.lon <= Fix(180)
                /\ b.alt >= 0
                /\ b.hour >= 0

\* C5 amended: every returned position has lat in [-90,90], lon in
\* [-180,180] and hour offset >= 0; its altitude is the raw altitude times
\* 1000 whatever its sign, so it is negative exactly when the raw one is.
C5_RangesWithoutAltitude ==
    ValidatedOk =>
        \A j \in 1..Len(vResult.balloons) :
            LET b == vResult.balloons[j]
                rawAlt == vData.items[b.index + 1].items[3].v
            IN  /\ b.lat >= Fix(-90) /\ b.lat <= Fix(90)
                /\ b.lon >= Fix(-180) /\ b.lon <= Fix(180)
                /\ b.hour >= 0
                /\ (b.alt < 0) <=> (rawAlt < 0)

\* a position with a negative altitude was returned
C5_Witness ==
    /\ ValidatedOk
    /\ \E j \in 1..Len(vResult.balloons) :
          /\ vResult.balloons[j].alt = Fix(-5000)
          /\ vResult.balloons[j].lat = Fix(-90)
          /\ vResult.balloons[j].lon = Fix(180)

-----------------------------------------------------------------------------
(* Scenario: the two builders on one list of snapshots *)

\* a validated balloon of a snapshot: only the latitude tells the
\* snapshots apart
SnapBalloon(index, lat, hour) ==
    [t |-> "balloon", index |-> index, lat |-> Fix(lat), lon |-> Fix(-122),
     alt |-> Fix(10500), hour |-> hour]

\* the balloon lists of one snapshot: index 0 absent, at latitude 10 or
\* at latitude 20; index 1 absent or at latitude 30
SnapshotBalloons(hour) ==
    {b0 \o b1 : b0 \in {<<>>, <<SnapBalloon(0, 10, hour)>>, <<SnapBalloon(0, 20, hour)>>},
                b1 \in {<<>>, <<SnapBalloon(1, 30, hour)>>}}

Snapshots ==
    UNION {{[t |-> "snapshot", hour |-> h, balloons |-> bs] : bs \in SnapshotBalloons(h)}
           : h \in 0..MaxInputHour}

SnapshotLists == UNION {[1..n -> Snapshots] : n \in 0..MaxSnapshots}

InitBuild ==
    /\ pc = "start"
    /\ allHoursData \in SnapshotLists
    /\ processed = <<>>
    /\ tracks = <<>>
    /\ vData = Null /\ vHour = 0 /\ vResult = Null
    /\ ClusterIdle
    /\ AppIdle
    /\ AnalysisIdle

\* const processed = processBalloonData(allHoursData)
ProcessBalloons ==
    /\ pc = "start"
    /\ processed' = processBalloonData(allHoursData)
    /\ pc' = "processed"
    /\ UNCHANGED <<allHoursData, tracks>>
    /\ UNCHANGED <<validatorVars, clusterVars, appVars>>
    /\ UNCHANGED analysisVars

\* const trajectoryTracks = processConstellationHistory(allHoursData)
BuildTracks ==
    /\ pc = "processed"
    /\ tracks' = processConstellationHistory(allHoursData)
    /\ pc' = "done"
    /\ UNCHANGED <<allHoursData, processed>>
    /\ UNCHANGED <<validatorVars, clusterVars, appVars>>
    /\ UNCHANGED analysisVars

NextBuild == ProcessBalloons \/ BuildTracks

SpecBuild == InitBuild /\ [][NextBuild]_vars

-----------------------------------------------------------------------------
(* Properties of the builders *)

Built == pc = "done"

IdsIn(snapshot) == {BalloonId(snapshot.balloons[j].index) : j \in 1..Len(snapshot.balloons)}

\* the balloon of that id in a snapshot that contains it
BalloonIn(snapshot, id) ==
    snapshot.balloons[CHOOSE j \in 1..Len(snapshot.balloons) :
                          BalloonId(snapshot.balloons[j].index) = id]

\* the positions in the list of the snapshots of hour h
ListedAt(h) == {i \in 1..Len(allHoursData) : allHoursData[i].hour = h}

\* the ids of every supplied snapshot, and the hours at which an id is supplied
SuppliedIds == UNION {IdsIn(allHoursData[i]) : i \in 1..Len(allHoursData)}

SuppliedHours(id) ==
    {h \in 0..OldestHour : \E i \in ListedAt(h) : id \in IdsIn(allHoursData[i])}

\* the first-listed snapshot of hour h (when ListedAt(h) is not empty)
FirstListed(h) == allHoursData[CHOOSE i \in ListedAt(h) : \A k \in ListedAt(h) : i <= k]

\* the hours whose first-listed snapshot holds the id
FirstListedHours(id) ==
    {h \in 0..OldestHour : ListedAt(h) # {} /\ id \in IdsIn(FirstListed(h))}

RealPoints(track) == SelectSeq(track, LAMBDA p : p.hourIndex # FutureHourIndex)

FuturePoints(track) == SelectSeq(track, LAMBDA p : p.hourIndex = FutureHourIndex)

HourIndexes(seq) == {seq[j].hourIndex : j \in 1..Len(seq)}

SamePosition(p, q) == p.lat = q.lat /\ p.lon = q.lon /\ p.alt = q.alt

MinOf(S) == CHOOSE m \in S : \A x \in S : m <= x

\* the point of a track at an hourIndex the track holds
PointAt(track, h) == track[CHOOSE j \in 1..Len(track) : track[j].hourIndex = h]

\* C6 as claimed: every id of a supplied snapshot has a non-empty track with
\* one real point per hour at which the id is supplied, plus exactly one
\* future point that copies its most recent position.
C6_Original_AlwaysOneFuturePoint ==
    Built =>
        \A id \in SuppliedIds :
            /\ id \in DOMAIN tracks
            /\ Len(tracks[id]) >= 1
            /\ HourIndexes(RealPoints(tracks[id])) = SuppliedHours(id)
            /\ Len(RealPoints(tracks[id])) = Cardinality(SuppliedHours(id))
            /\ Len(FuturePoints(tracks[id])) = 1
            /\ SamePosition(FuturePoints(tracks[id])[1],
                            PointAt(tracks[id], MinOf(SuppliedHours(id))))

\* C6 amended: the tracks are those of the ids held by the first-listed
\* snapshot of some hour; each is non-empty and holds exactly one real point
\* per hour whose first-listed snapshot holds the id, at the position given
\* there; it holds exactly one future point, a copy of the hour-0 position,
\* when the first-listed hour-0 snapshot holds the id, and none otherwise.
C6_OneRealPointPerHour_FutureIffHour0 ==
    Built =>
        /\ DOMAIN tracks = {id \in SuppliedIds : FirstListedHours(id) # {}}
        /\ \A id \in DOMAIN tracks :
              LET real == RealPoints(tracks[id])
                  future == FuturePoints(tracks[id])
              IN  /\ Len(tracks[id]) >= 1
                  /\ HourIndexes(real) = FirstListedHours(id)
                  /\ Len(real) = Cardinality(FirstListedHours(id))
                  /\ \A j \in 1..Len(real) :
                        /\ real[j].id = id
                        /\ SamePosition(real[j], BalloonIn(FirstListed(real[j].hourIndex), id))
                  /\ Len(future) = (IF 0 \in FirstListedHours(id) THEN 1 ELSE 0)
                  /\ \A j \in 1..Len(future) :
                        SamePosition(future[j], PointAt(tracks[id], 0))

\* the example of the contract: offsets 0, 1, 2 with one balloon at index 0
\* give 3 real points and 1 future point
C6_Witness ==
    /\ Built
    /\ Len(allHoursData) = 3
    /\ \A i \in 1..3 : allHoursData[i].hour = i - 1 /\ IdsIn(allHoursData[i]) = {BalloonId(0)}
    /\ Len(tracks[BalloonId(0)]) = 4
    /\ Len(RealPoints(tracks[BalloonId(0)])) = 3

\* C7 as claimed: a track is stored oldest first: every real point lies
\* further in the past (larger hours-ago offset) than the real points behind
\* it, and the future point is the last element.
C7_Claim_OldestFirst ==
    Built =>
        \A id \in DOMAIN tracks :
            /\ \A i, j \in 1..Len(tracks[id]) :
                  (/\ i < j
                   /\ tracks[id][i].hourIndex # FutureHourIndex
                   /\ tracks[id][j].hourIndex # FutureHourIndex)
                  => tracks[id][i].hourIndex > tracks[id][j].hourIndex
            /\ \A i \in 1..Len(tracks[id]) :
                  tracks[id][i].hourIndex = FutureHourIndex => i = Len(tracks[id])

\* C8: within a track no two points have the same hourIndex, and two points
\* copy the same hour offset only when one of them is the future point, of
\* which there is at most one.
C8_HourOffsetsUnique ==
    Built =>
        \A id \in DOMAIN tracks :
            /\ \A i, j \in 1..Len(tracks[id]) :
                  i # j =>
                      /\ tracks[id][i].hourIndex # tracks[id][j].hourIndex
                      /\ tracks[id][i].hour = tracks[id][j].hour
                            => FutureHourIndex \in {tracks[id][i].hourIndex, tracks[id][j].hourIndex}
            /\ Len(FuturePoints(tracks[id])) <= 1

\* two snapshots of hour 0 both hold balloon 0, whose track was built with
\* its future point
C8_Witness ==
    /\ Built
    /\ \E i, k \in ListedAt(0) :
          /\ i # k
          /\ BalloonId(0) \in IdsIn(allHoursData[i]) \cap IdsIn(allHoursData[k])
    /\ BalloonId(0) \in DOMAIN tracks
    /\ Len(FuturePoints(tracks[BalloonId(0)])) = 1
    /\ Len(tracks[BalloonId(0)]) >= 3

\* the last-listed snapshot of hour h that holds the id
LastListedWith(h, id) ==
    allHoursData[CHOOSE i \in ListedAt(h) :
                     /\ id \in IdsIn(allHoursData[i])
                     /\ \A k \in ListedAt(h) : id \in IdsIn(allHoursData[k]) => k <= i]

ProcessedIds == {processed[j].id : j \in 1..Len(processed)}

ProcessedOf(id) == processed[CHOOSE j \in 1..Len(processed) : processed[j].id = id]

\* C9 as claimed: for an hour with several snapshots, the position kept for
\* that hour, in the track and in the balloon, is the one of the snapshot
\* that comes last.
C9_Original_LastWriteWins ==
    Built =>
        \A h \in 0..OldestHour :
            Cardinality(ListedAt(h)) > 1 =>
                \A id \in SuppliedIds :
                    h \in SuppliedHours(id) =>
                        /\ id \in DOMAIN tracks
                        /\ h \in HourIndexes(tracks[id])
                        /\ SamePosition(PointAt(tracks[id], h), BalloonIn(LastListedWith(h, id), id))
                        /\ SamePosition(ProcessedOf(id).positionsByHour[h],
                                        BalloonIn(LastListedWith(h, id), id))

\* C9 amended: for an hour with several snapshots both builders complete;
\* the track keeps the position of the first-listed snapshot of the hour
\* and nothing of the later ones; the balloon's positionsByHour (and its
\* currentPosition, for hour 0) keeps the position of the last-listed
\* snapshot that holds the balloon, and its positions list keeps one entry
\* per snapshot that holds it.
C9_TrackFirstWins_BalloonLastWins ==
    Built =>
        \A h \in 0..OldestHour :
            Cardinality(ListedAt(h)) > 1 =>
                \A id \in SuppliedIds :
                    h \in SuppliedHours(id) =>
                        /\ IF id \in IdsIn(FirstListed(h))
                           THEN /\ id \in DOMAIN tracks
                                /\ Len(SelectSeq(tracks[id], LAMBDA p : p.hourIndex = h)) = 1
                                /\ SamePosition(PointAt(tracks[id], h), BalloonIn(FirstListed(h), id))
                           ELSE id \in DOMAIN tracks => h \notin HourIndexes(tracks[id])
                        /\ id \in ProcessedIds
                        /\ SamePosition(ProcessedOf(id).positionsByHour[h],
                                        BalloonIn(LastListedWith(h, id), id))
                        /\ h = 0 => ProcessedOf(id).currentPosition = ProcessedOf(id).positionsByHour[0]
                        /\ Len(SelectSeq(ProcessedOf(id).positions, LAMBDA p : p.hour = h))
                              = Cardinality({i \in ListedAt(h) : id \in IdsIn(allHoursData[i])})

\* hour 0 is listed twice with balloon 0 at two latitudes: the track holds
\* the first one, the balloon's current position the second one
C9_Witness ==
    /\ Built
    /\ Len(allHoursData) = 2
    /\ allHoursData[1] = [t |-> "snapshot", hour |-> 0, balloons |-> <<SnapBalloon(0, 10, 0)>>]
    /\ allHoursData[2] = [t |-> "snapshot", hour |-> 0, balloons |-> <<SnapBalloon(0, 20, 0)>>]
    /\ PointAt(tracks[BalloonId(0)], 0).lat = Fix(10)
    /\ ProcessedOf(BalloonId(0)).currentPosition.lat = Fix(20)
    /\ Len(ProcessedOf(BalloonId(0)).positions) = 2

-----------------------------------------------------------------------------
(* Scenario: detectClusters on a balloon list and on a reordering of it *)

Site(lat, lon, alt) == [lat |-> lat, lon |-> lon, alt |-> alt]

\* seven positions around the equator, in tenths of a degree: two groups of
\* three around positions 1 and 5, with positions 3 and 4 in reach of both
\* at eps = 56 km, and position 2 at another altitude, 55.6 km from position 1
Sites ==
    <<Site(0, -3, 0), Site(0, -8, Fix(12000)), Site(3, 0, 0), Site(-3, 0, 0),
      Site(0, 3, 0), Site(0, 7, 0), Site(3, 6, 0)>>

BalloonAt(n) == [id |-> BalloonId(n), currentPosition |-> Sites[n]]

\* the balloons of a set of positions, in ascending order of position
RECURSIVE BalloonsOf(_)
BalloonsOf(S) ==
    IF S = {} THEN <<>>
    ELSE LET n == CHOOSE x \in S : \A y \in S : x <= y
         IN  <<BalloonAt(n)>> \o BalloonsOf(S \ {n})

\* the orderings of a set of list positions
RECURSIVE PermutationsOf(_)
PermutationsOf(S) ==
    IF S = {} THEN {<<>>}
    ELSE UNION {{<<x>> \o p : p \in PermutationsOf(S \ {x})} : x \in S}

\* every ordering of a list
Orderings(list) ==
    {[j \in 1..Len(list) |-> list[p[j]]] : p \in PermutationsOf(1..Len(list))}

Configs ==
    [eps : {56, 100}, minPts : 1..MaxMinPts, altitudeWeight : {0, 3}]

InitCluster ==
    /\ pc = "start"
    /\ \E S \in SUBSET (1..Len(Sites)) :
          /\ Cardinality(S) <= MaxBalloons
          /\ inputBalloons = BalloonsOf(S)
    /\ reorderedBalloons \in Orderings(inputBalloons)
    /\ dbscanConfig \in Configs
    /\ foundClusters = <<>>
    /\ foundReordered = <<>>
    /\ vData = Null /\ vHour = 0 /\ vResult = Null
    /\ allHoursData = <<>> /\ processed = <<>> /\ tracks = <<>>
    /\ AppIdle
    /\ AnalysisIdle

\* const detectedClusters = detectClusters(processed, config)
DetectClusters ==
    /\ pc = "start"
    /\ foundClusters' = detectClusters(inputBalloons, dbscanConfig)
    /\ pc' = "detected"
    /\ UNCHANGED <<inputBalloons, reorderedBalloons, dbscanConfig, foundReordered>>
    /\ UNCHANGED <<validatorVars, builderVars, appVars>>
    /\ UNCHANGED analysisVars

\* the same call on the reordered list
DetectClustersReordered ==
    /\ pc = "detected"
    /\ foundReordered' = detectClusters(reorderedBalloons, dbscanConfig)
    /\ pc' = "done"
    /\ UNCHANGED <<inputBalloons, reorderedBalloons, dbscanConfig, foundClusters>>
    /\ UNCHANGED <<validatorVars, builderVars, appVars>>
    /\ UNCHANGED analysisVars

NextCluster == DetectClusters \/ DetectClustersReordered

SpecCluster == InitCluster /\ [][NextCluster]_vars

-----------------------------------------------------------------------------
(* Properties of detectClusters *)

DetectionDone == pc = "done"

\* the member ids of one cluster, as a list and as a set
MemberIds(cluster) == [j \in 1..Len(cluster.balloons) |-> cluster.balloons[j].id]

MemberSet(cluster) == {cluster.balloons[j].id : j \in 1..Len(cluster.balloons)}

\* the set of the member-id sets of a result
Membership(result) == {MemberSet(result[c]) : c \in 1..Len(result)}

RECURSIVE SumCounts(_)
SumCounts(result) ==
    IF result = <<>> THEN 0 ELSE Head(result).count + SumCounts(Tail(result))

\* no id twice in one cluster, no id in two clusters, counts within the input
Disjoint(result, input) ==
    /\ \A c \in 1..Len(result) :
          \A i, j \in 1..Len(result[c].balloons) :
              i # j => result[c].balloons[i].id # result[c].balloons[j].id
    /\ \A c, d \in 1..Len(result) :
          c # d => MemberSet(result[c]) \cap MemberSet(result[d]) = {}
    /\ \A c \in 1..Len(result) :
          /\ result[c].count = Len(result[c].balloons)
          /\ MemberSet(result[c]) \subseteq {input[j].id : j \in 1..Len(input)}
    /\ SumCounts(result) <= Len(input)

\* C1: the clusters of one detectClusters call are pairwise disjoint, none
\* lists a balloon twice, and their counts sum to at most the number of
\* input balloons, for every list order and every eps, minPts and
\* altitudeWeight.
C1_ClustersDisjoint ==
    /\ pc \in {"detected", "done"} => Disjoint(foundClusters, inputBalloons)
    /\ DetectionDone => Disjoint(foundReordered, reorderedBalloons)

\* two clusters were emitted from the seven balloons at eps = 56 km, where
\* two balloons lie within eps of core points of both clusters
C1_Witness ==
    /\ DetectionDone
    /\ Len(reorderedBalloons) = 7
    /\ dbscanConfig = [eps |-> 56, minPts |-> 3, altitudeWeight |-> 0]
    /\ Len(foundReordered) = 2
    /\ SumCounts(foundReordered) = 7

\* the ids of the input balloons, and the balloon of an id
InputIds == {inputBalloons[j].id : j \in 1..Len(inputBalloons)}

InputBalloon(id) == inputBalloons[CHOOSE j \in 1..Len(inputBalloons) : inputBalloons[j].id = id]

\* two different balloons within eps of each other
Adjacent(a, b) ==
    /\ a # b
    /\ WithinEps(InputBalloon(a).currentPosition, InputBalloon(b).currentPosition, dbscanConfig)

\* the balloons with at least minPts other balloons within eps
CoreIds ==
    {a \in InputIds : Cardinality({b \in InputIds : Adjacent(a, b)}) >= dbscanConfig.minPts}

\* the core points linked to those of S by a chain of adjacent core points
RECURSIVE CoreClosure(_)
CoreClosure(S) ==
    LET more == S \cup {c \in CoreIds : \E x \in S : Adjacent(x, c)}
    IN  IF more = S THEN S ELSE CoreClosure(more)

\* the density-connected component of a core point
Component(c) == CoreClosure({c})

\* no balloon that is not a core point lies within eps of core points of
\* two components
NoSharedBorder ==
    \A b \in InputIds \ CoreIds :
        \A c, d \in CoreIds :
            (Adjacent(b, c) /\ Adjacent(b, d)) => d \in Component(c)

-----------------------------------------------------------------------------
(* Scenario: one refresh cycle, loadBalloonData *)

\* the config detectClusters takes when none is given
DefaultConfig == [eps |-> 1000, minPts |-> 15, altitudeWeight |-> 3]

\* the gridSize calculateDensity takes when none is given
DefaultGridSize == 10

\* bodies of a response: an object, unparsable text, an empty array, one
\* well-formed entry [0.3, -0.3, 10.5], and [91, 0, 5] in front of the
\* well-formed [-0.3, 0.7, 12]
LoadBodies ==
    {JObj, JInvalid, JArr(<<>>),
     JArr(<<JArr(<<JNum(3), JNum(-3), JNum(105)>>)>>),
     JArr(<<JArr(<<JNum(Fix(91)), JNum(0), JNum(Fix(5))>>),
            JArr(<<JNum(-3), JNum(7), JNum(Fix(12))>>)>>)}

\* the responses a request can get: any body with status ok, and an error
\* status with an unparsable body or with an array
Responses ==
    {Response(TRUE, b) : b \in LoadBodies}
    \cup {Response(FALSE, JInvalid),
          Response(FALSE, JArr(<<JArr(<<JNum(3), JNum(-3), JNum(105)>>)>>))}

FetchHours == 0..FetchOldestHour

AllSettled == \A h \in FetchHours : fetches[h].kind # "pending"

InitLoad ==
    /\ pc = "start"
    /\ AppIdle
    /\ AnalysisIdle
    /\ vData = Null /\ vHour = 0 /\ vResult = Null
    /\ allHoursData = <<>> /\ processed = <<>> /\ tracks = <<>>
    /\ ClusterIdle

\* loadBalloonData up to its await: setLoading(true), setError(null), and
\* fetchAllBalloonData starting the request of every hour
StartLoad ==
    /\ pc = "start"
    /\ pc' = "fetching"
    /\ loading' = TRUE
    /\ error' = "null"
    /\ fetches' = [h \in FetchHours |-> Pending]
    /\ UNCHANGED <<denseRegions, stats>>
    /\ UNCHANGED <<validatorVars, builderVars, clusterVars>>
    /\ UNCHANGED analysisVars

\* fetch(url) of hour h rejects
FetchRejects(h) ==
    /\ pc = "fetching"
    /\ fetches[h].kind = "pending"
    /\ fetches' = [fetches EXCEPT ![h] = NetworkError]
    /\ UNCHANGED <<pc, loading, error, denseRegions, stats>>
    /\ UNCHANGED <<validatorVars, builderVars, clusterVars>>
    /\ UNCHANGED analysisVars

\* fetch(url) of hour h resolves with a response
FetchResponds(h, response) ==
    /\ pc = "fetching"
    /\ fetches[h].kind = "pending"
    /\ fetches' = [fetches EXCEPT ![h] = response]
    /\ UNCHANGED <<pc, loading, error, denseRegions, stats>>
    /\ UNCHANGED <<validatorVars, builderVars, clusterVars>>
    /\ UNCHANGED analysisVars

\* loadBalloonData behind its await when no hour gave a snapshot
LoadNoData ==
    /\ pc = "fetching"
    /\ AllSettled
    /\ ValidResults(fetches, FetchOldestHour) = <<>>
    /\ allHoursData' = <<>>
    /\ error' = "No balloon data available"
    /\ loading' = FALSE
    /\ pc' = "done"
    /\ UNCHANGED <<processed, tracks, fetches, denseRegions, stats>>
    /\ UNCHANGED <<validatorVars, clusterVars>>
    /\ UNCHANGED analysisVars

\* loadBalloonData behind its await when some hour gave a snapshot
LoadProcess ==
    /\ pc = "fetching"
    /\ AllSettled
    /\ ValidResults(fetches, FetchOldestHour) # <<>>
    /\ LET all == ValidResults(fetches, FetchOldestHour)
           balloons == processBalloonData(all)
           altitudeStats == calculateAltitudeStats(balloons)
           regionalDist == calculateRegionalDistribution(balloons)
       IN  /\ allHoursData' = all
           /\ processed' = balloons
           /\ tracks' = processConstellationHistory(all)
           /\ foundClusters' = detectClusters(balloons, DefaultConfig)
           /\ denseRegions' = TopDenseRegions(calculateDensity(balloons, DefaultGridSize))
           /\ stats' = [totalBalloons |-> Len(balloons),
                        hoursWithData |-> Len(all),
                        avgAltitude |-> MathRound(altitudeStats.avg[1],
                                                  Fix(altitudeStats.avg[2])),
                        northernHem |-> regionalDist.northernHem,
                        southernHem |-> regionalDist.southernHem]
    /\ loading' = FALSE
    /\ pc' = "done"
    /\ UNCHANGED <<fetches, error>>
    /\ UNCHANGED <<inputBalloons, reorderedBalloons, dbscanConfig, foundReordered>>
    /\ UNCHANGED validatorVars
    /\ UNCHANGED analysisVars

NextLoad ==
    \/ StartLoad
    \/ \E h \in FetchHours : FetchRejects(h)
    \/ \E h \in FetchHours : \E response \in Responses : FetchResponds(h, response)
    \/ LoadNoData
    \/ LoadProcess

SpecLoad == InitLoad /\ [][NextLoad]_vars

-----------------------------------------------------------------------------
(* Properties of the refresh cycle *)

\* the request of hour h got an ok response whose body is an array
Succeeded(h) ==
    /\ fetches[h].kind = "response"
    /\ fetches[h].ok
    /\ IsArray(fetches[h].body)

SucceededHours == {h \in FetchHours : Succeeded(h)}

\* the hours of a list of snapshots, in list order
HoursOf(all) == [j \in 1..Len(all) |-> all[j].hour]

RECURSIVE Descending(_, _)
Descending(S, hour) ==
    IF hour < 0 THEN <<>>
    ELSE (IF hour \in S THEN <<hour>> ELSE <<>>) \o Descending(S, hour - 1)

\* C10: whatever subset of the requests fails (rejected fetch, status not
\* ok, unparsable or non-array body), the completed load holds exactly one
\* snapshot for each hour that succeeded, in the order of the requests
\* (hour FetchOldestHour first), built from that hour's body; with at least one
\* such hour it proceeds (no error, hoursWithData is their number), with
\* none it reports 'No balloon data available'.
C10_PartialResults ==
    pc = "done" =>
          /\ AllSettled
          /\ ~loading
          /\ HoursOf(allHoursData) = Descending(SucceededHours, FetchOldestHour)
          /\ \A j \in 1..Len(allHoursData) :
                allHoursData[j] = validateBalloonData(fetches[allHoursData[j].hour].body,
                                                      allHoursData[j].hour)
          /\ IF SucceededHours # {}
             THEN /\ error = "null"
                  /\ stats.hoursWithData = Cardinality(SucceededHours)
                  /\ {processed[j].id : j \in 1..Len(processed)}
                        = UNION {IdsIn(allHoursData[j]) : j \in 1..Len(allHoursData)}
                  /\ DOMAIN tracks = {processed[j].id : j \in 1..Len(processed)}
             ELSE /\ error = "No balloon data available"
                  /\ processed = <<>>
                  /\ stats.hoursWithData = 0

\* hour 0 was rejected, hour 1 answered with an error status, hour 2 gave
\* one balloon: the load went on with that one snapshot
C10_Witness ==
    /\ pc = "done"
    /\ fetches[0].kind = "networkError"
    /\ fetches[1].kind = "response" /\ ~fetches[1].ok /\ IsArray(fetches[1].body)
    /\ Succeeded(2)
    /\ SucceededHours = {2}
    /\ Len(allHoursData) = 1
    /\ Len(processed) = 1
    /\ error = "null"
    /\ stats.totalBalloons = 1

-----------------------------------------------------------------------------
(* Scenario: overlapping refresh cycles, App effect and Retry button *)

\* most refresh cycles started in one run
MaxCycles == 3

\* what loadBalloonData stores behind its await from a non-empty list of
\* snapshots
LoadedState(all) ==
    LET balloons == processBalloonData(all)
        altitudeStats == calculateAltitudeStats(balloons)
        regionalDist == calculateRegionalDistribution(balloons)
    IN  [balloons |-> balloons,
         tracks |-> processConstellationHistory(all),
         clusters |-> detectClusters(balloons, DefaultConfig),
         denseRegions |-> TopDenseRegions(calculateDensity(balloons, DefaultGridSize)),
         stats |-> [totalBalloons |-> Len(balloons),
                    hoursWithData |-> Len(all),
                    avgAltitude |-> MathRound(altitudeStats.avg[1],
                                              Fix(altitudeStats.avg[2])),
                    northernHem |-> regionalDist.northernHem,
                    southernHem |-> regionalDist.southernHem]]

\* the feed as one cycle can find it: every request fails; every hour has
\* the balloon [0.3, -0.3, 10.5]; only hour 0 answers, with [-0.3, 0.7, 12]
\* behind a malformed entry; hour 0 answers with an error status and the
\* other hours with the second body
RefreshFeeds ==
    LET bodyA == JArr(<<JArr(<<JNum(3), JNum(-3), JNum(105)>>)>>)
        bodyB == JArr(<<JArr(<<JNum(Fix(91)), JNum(0), JNum(Fix(5))>>),
                        JArr(<<JNum(-3), JNum(7), JNum(Fix(12))>>)>>)
    IN  {[h \in FetchHours |-> NetworkError],
         [h \in FetchHours |-> Response(TRUE, bodyA)],
         [h \in FetchHours |-> IF h = 0 THEN Response(TRUE, bodyB) ELSE NetworkError],
         [h \in FetchHours |-> IF h = 0 THEN Response(FALSE, bodyA)
                               ELSE Response(TRUE, bodyB)]}

InitRefresh ==
    /\ pc = "mounted"
    /\ AppIdle
    /\ AnalysisIdle
    /\ vData = Null /\ vHour = 0 /\ vResult = Null
    /\ allHoursData = <<>> /\ processed = <<>> /\ tracks = <<>>
    /\ ClusterIdle

\* loadBalloonData up to its await, for a new cycle
BeginCycle(by) ==
    /\ Len(cycles) < MaxCycles
    /\ cycles' = Append(cycles, [state |-> "pending", feed |-> <<>>, by |-> by])
    /\ loading' = TRUE
    /\ error' = "null"
    /\ UNCHANGED <<pc, fetches, denseRegions, stats>>
    /\ UNCHANGED <<validatorVars, builderVars, clusterVars, segmentVars, motionVars, driftVars,
                   regionVars, frameVars, sessionVars>>

\* the setTimeout(..., 0) of the mount effect
InitialLoad ==
    /\ cycles = <<>>
    /\ BeginCycle("timeout")

\* the setInterval(..., CONFIG.REFRESH_INTERVAL) of the mount effect
IntervalTick ==
    /\ cycles # <<>>
    /\ BeginCycle("interval")

\* onClick of the Retry button, rendered while error is set
ClickRetry ==
    /\ error # "null"
    /\ BeginCycle("retry")

\* the await of cycle k resolves with the snapshots of feed, and
\* loadBalloonData runs to its end
CycleCompletes(k, feed) ==
    /\ cycles[k].state = "pending"
    /\ cycles' = [cycles EXCEPT ![k] = [state |-> "done", feed |-> feed, by |-> @.by]]
    /\ LET all == ValidResults(feed, FetchOldestHour)
       IN  /\ allHoursData' = all
           /\ IF Len(all) = 0
              THEN /\ error' = "No balloon data available"
                   /\ UNCHANGED <<processed, tracks, foundClusters, denseRegions, stats>>
              ELSE /\ processed' = LoadedState(all).balloons
                   /\ tracks' = LoadedState(all).tracks
                   /\ foundClusters' = LoadedState(all).clusters
                   /\ denseRegions' = LoadedState(all).denseRegions
                   /\ stats' = LoadedState(all).stats
                   /\ UNCHANGED error
    /\ loading' = FALSE
    /\ UNCHANGED <<pc, fetches>>
    /\ UNCHANGED <<inputBalloons, reorderedBalloons, dbscanConfig, foundReordered>>
    /\ UNCHANGED <<validatorVars, segmentVars, motionVars, driftVars, regionVars, frameVars, sessionVars>>

NextRefresh ==
    \/ InitialLoad
    \/ IntervalTick
    \/ ClickRetry
    \/ \E k \in 1..Len(cycles) : \E feed \in RefreshFeeds : CycleCompletes(k, feed)

SpecRefresh == InitRefresh /\ [][NextRefresh]_vars

-----------------------------------------------------------------------------
(* Properties of overlapping refresh cycles *)

AllCyclesDone == \A k \in 1..Len(cycles) : cycles[k].state = "done"

NewestData == ValidResults(cycles[Len(cycles)].feed, FetchOldestHour)

\* C11: once all started cycles have completed, the stored balloons,
\* tracks, clusters, dense regions and stats are those of the newest cycle
\* that was started (here: whenever that cycle found data).
C11_Claim_LastCycleWins ==
    (AllCyclesDone /\ Len(cycles) >= 2 /\ NewestData # <<>>) =>
        /\ processed = LoadedState(NewestData).balloons
        /\ tracks = LoadedState(NewestData).tracks
        /\ foundClusters = LoadedState(NewestData).clusters
        /\ denseRegions = LoadedState(NewestData).denseRegions
        /\ stats = LoadedState(NewestData).stats

-----------------------------------------------------------------------------
(* Motion metrics of the trajectory engine *)

\* the integer square root: the largest r in lo..hi with r * r <= x
RECURSIVE SqrtBetween(_, _, _)
SqrtBetween(x, lo, hi) ==
    IF lo >= hi THEN lo
    ELSE LET mid == (lo + hi + 1) \div 2
         IN  IF mid * mid <= x THEN SqrtBetween(x, mid, hi)
             ELSE SqrtBetween(x, lo, mid - 1)

\* getDistance(lat1, lon1, lat2, lon2) in units of 100 m, rounded down, for
\* the points of the model: they lie within a few degrees of the equator,
\* where the haversine distance is R * PI / 180 times the Euclidean
\* distance of the coordinates in degrees
getDistance(lat1, lon1, lat2, lon2) ==
    SqrtBetween(calculateDistanceSq([lat |-> lat1, lon |-> lon1],
                                    [lat |-> lat2, lon |-> lon2]), 0, 46340)

\* !pos of a position object or null
IsNullPos(pos) == "lat" \notin DOMAIN pos

\* calculateSegmentSpeed(pos1, pos2) in km/h, as the pair <<distance in
\* units of 100 m, timeHours>> of the division it returns; 0 is <<0, 1>>
calculateSegmentSpeed(p1, p2) ==
    IF IsNullPos(p1) \/ IsNullPos(p2) THEN <<0, 1>>
    ELSE IF p1.lat = 0 \/ p2.lat = 0 THEN <<0, 1>>
    ELSE LET distance == getDistance(p1.lat, p1.lon, p2.lat, p2.lon)
             timeHours == IF Abs(p2.hourIndex - p1.hourIndex) = 0 THEN 1
                          ELSE Abs(p2.hourIndex - p1.hourIndex)
         IN  <<distance, timeHours>>

\* equality of two quotients <<numerator, denominator>>
SameQuotient(p, q) == p[1] * q[2] = q[1] * p[2]

\* the JavaScript value undefined
Undefined == [t |-> "undefined", v |-> 0, items |-> <<>>]

\* the TypeError thrown by reading a property of undefined
Thrown == [t |-> "TypeError", v |-> 0, items |-> <<>>]

\* the sum p + q of two quotients
AddQuotient(p, q) == <<p[1] * q[2] + q[1] * p[2], p[2] * q[2]>>

\* p < q for two quotients with positive denominators
LessQuotient(p, q) == p[1] * q[2] < q[1] * p[2]

\* the for loop of calculateTrackSpeeds, from position i on (1-based)
RECURSIVE TrackSpeedsFrom(_, _, _)
TrackSpeedsFrom(points, i, speeds) ==
    IF i > Len(points) THEN speeds
    ELSE TrackSpeedsFrom(points, i + 1,
             Append(speeds, [hourIndex |-> points[i].hourIndex,
                             speed |-> calculateSegmentSpeed(points[i - 1], points[i]),
                             position |-> points[i]]))

\* calculateTrackSpeeds with its loop starting at the first point, whose
\* predecessor is undefined
calculateTrackSpeedsFromFirst(track) ==
    IF ~IsArray(track) THEN Thrown
    ELSE IF track.items = <<>> THEN JArr(<<>>)
    ELSE JArr(TrackSpeedsFrom(track.items, 2,
                  <<[hourIndex |-> track.items[1].hourIndex,
                     speed |-> calculateSegmentSpeed([t |-> "null"], track.items[1]),
                     position |-> track.items[1]]>>))

\* calculateTrackSpeeds(track): track.length of undefined throws
calculateTrackSpeeds(track) ==
    IF ~IsArray(track) THEN Thrown
    ELSE JArr(TrackSpeedsFrom(track.items, 2, <<>>))

\* the for loop of calculateTotalDistance, from position i on (1-based)
RECURSIVE TotalDistanceFrom(_, _, _)
TotalDistanceFrom(points, i, sum) ==
    IF i > Len(points) THEN sum
    ELSE TotalDistanceFrom(points, i + 1,
             sum + getDistance(points[i - 1].lat, points[i - 1].lon,
                                         points[i].lat, points[i].lon))

\* calculateTotalDistance(track), in units of 100 m
calculateTotalDistance(track) ==
    IF ~IsArray(track) THEN Thrown
    ELSE JNum(TotalDistanceFrom(track.items, 2, 0))

\* speedValues.reduce((sum, s) => sum + s, 0)
RECURSIVE SumQuotients(_)
SumQuotients(values) ==
    IF values = <<>> THEN <<0, 1>>
    ELSE AddQuotient(SumQuotients(SubSeq(values, 1, Len(values) - 1)), values[Len(values)])

\* Math.max(...values) of a non-empty list of quotients
RECURSIVE MaxQuotient(_)
MaxQuotient(values) ==
    IF Len(values) = 1 THEN values[1]
    ELSE LET rest == MaxQuotient(Tail(values))
         IN  IF LessQuotient(values[1], rest) THEN rest ELSE values[1]

\* Math.min(...values) of a non-empty list of quotients
RECURSIVE MinQuotient(_)
MinQuotient(values) ==
    IF Len(values) = 1 THEN values[1]
    ELSE LET rest == MinQuotient(Tail(values))
         IN  IF LessQuotient(rest, values[1]) THEN rest ELSE values[1]

\* the result object of calculateTrackStats for no track
ZeroTrackStats ==
    [totalDistance |-> 0, averageSpeed |-> <<0, 1>>, maxSpeed |-> <<0, 1>>,
     minSpeed |-> <<0, 1>>, altitudeRange |-> [min |-> 0, max |-> 0], duration |-> 0]

\* calculateTrackStats(track); averageSpeed is the quotient of the sum of
\* the speeds by their number
calculateTrackStats(track) ==
    IF track.t \in {"undefined", "null"} THEN ZeroTrackStats
    ELSE IF Len(track.items) = 0 THEN ZeroTrackStats
    ELSE LET points == track.items
             speeds == calculateTrackSpeeds(track).items
             speedValues == [j \in 1..Len(speeds) |-> speeds[j].speed]
             alts == [j \in 1..Len(points) |-> <<points[j].alt, 1>>]
             total == SumQuotients(speedValues)
         IN  [totalDistance |-> calculateTotalDistance(track).v,
              averageSpeed |-> IF Len(speedValues) > 0
                               THEN <<total[1], total[2] * Len(speedValues)>>
                               ELSE <<0, 1>>,
              maxSpeed |-> IF Len(speedValues) > 0 THEN MaxQuotient(speedValues) ELSE <<0, 1>>,
              minSpeed |-> IF Len(speedValues) > 0 THEN MinQuotient(speedValues) ELSE <<0, 1>>,
              altitudeRange |-> [min |-> MinQuotient(alts)[1], max |-> MaxQuotient(alts)[1]],
              duration |-> Len(points)]

\* filterTracksByTime with the end of the window left out
filterTracksByTimeHalfOpen(trks, startHour, endHour) ==
    LET filteredTrack(id) ==
            SelectSeq(trks[id], LAMBDA pos :
                pos.hourIndex >= startHour /\ pos.hourIndex < endHour)
    IN  [id \in {k \in DOMAIN trks : Len(filteredTrack(k)) > 0} |-> filteredTrack(id)]

\* filterTracksByTime(tracks, startHour, endHour): a balloon whose filtered
\* track is empty gets no key
filterTracksByTime(trks, startHour, endHour) ==
    LET filteredTrack(id) ==
            SelectSeq(trks[id], LAMBDA pos :
                pos.hourIndex >= startHour /\ pos.hourIndex <= endHour)
    IN  [id \in {k \in DOMAIN trks : Len(filteredTrack(k)) > 0} |-> filteredTrack(id)]

\* calculateBearing of analytics.js and of the trajectory engine, in whole
\* degrees, for the steps of the model: a step along a meridian is due
\* north (0) or south (180), a step along a parallel near the equator is due
\* east (90) or west (270), and atan2(0, 0) is 0
calculateBearing(lat1, lon1, lat2, lon2) ==
    IF lon2 = lon1 THEN (IF lat2 >= lat1 THEN 0 ELSE 180)
    ELSE IF lon2 > lon1 THEN 90 ELSE 270

\* calculateDriftVector(pos1, pos2)
calculateDriftVector(p1, p2) ==
    IF IsNullPos(p1) \/ IsNullPos(p2) THEN [speed |-> <<0, 1>>, direction |-> 0]
    ELSE [speed |-> calculateSegmentSpeed(p1, p2),
          direction |-> calculateBearing(p1.lat, p1.lon, p2.lat, p2.lon)]

\* the for loop of detectEddies, from position i on (1-based): the pair
\* <<totalHeadingChange, directionChanges>>
RECURSIVE EddyLoop(_, _, _, _)
EddyLoop(points, i, totalHeadingChange, directionChanges) ==
    IF i > Len(points) THEN <<totalHeadingChange, directionChanges>>
    ELSE LET prevPos == points[i - 1]
             currPos == points[i]
         IN  IF calculateDistanceSq(prevPos, currPos) < 10 * 10
             THEN EddyLoop(points, i + 1, totalHeadingChange, directionChanges)
             ELSE LET heading == calculateBearing(prevPos.lat, prevPos.lon,
                                                  currPos.lat, currPos.lon)
                      prevHeading == IF i = 2 THEN heading
                                     ELSE calculateBearing(points[i - 2].lat, points[i - 2].lon,
                                                           prevPos.lat, prevPos.lon)
                      rawDiff == Abs(heading - prevHeading)
                      headingDiff == IF rawDiff > 180 THEN 360 - rawDiff ELSE rawDiff
                  IN  EddyLoop(points, i + 1, totalHeadingChange + headingDiff,
                               IF headingDiff > 45 THEN directionChanges + 1
                               ELSE directionChanges)

\* detectEddies(track)
detectEddies(track) ==
    IF track.t \in {"undefined", "null"} THEN FALSE
    ELSE IF Len(track.items) < 6 THEN FALSE
    ELSE LET sums == EddyLoop(track.items, 2, 0, 0)
         IN  sums[1] > 360 \/ 10 * sums[2] > 6 * Len(track.items)

\* the for loop of detectTurbulence, from position i on (1-based): the pair
\* <<directionChanges, totalAltitudeChange>>
RECURSIVE TurbulenceLoop(_, _, _, _)
TurbulenceLoop(points, i, directionChanges, totalAltitudeChange) ==
    IF i > Len(points) THEN <<directionChanges, totalAltitudeChange>>
    ELSE LET altDiff == points[i].alt - points[i - 1].alt
             prevDiff == IF i > 2 THEN points[i - 1].alt - points[i - 2].alt ELSE 0
             turned == i > 2 /\ ((altDiff > 0 /\ prevDiff < 0) \/ (altDiff < 0 /\ prevDiff > 0))
         IN  TurbulenceLoop(points, i + 1,
                            IF turned THEN directionChanges + 1 ELSE directionChanges,
                            totalAltitudeChange + Abs(altDiff))

\* detectTurbulence(track)
detectTurbulence(track) ==
    IF track.t \in {"undefined", "null"} THEN FALSE
    ELSE IF Len(track.items) < 6 THEN FALSE
    ELSE LET sums == TurbulenceLoop(track.items, 2, 0, 0)
         IN  sums[1] > 3 \/ sums[2] > Fix(1000) * (Len(track.items) - 1)

-----------------------------------------------------------------------------
(* Scenario: the speed of one segment *)

\* largest hour offset of the two positions
MaxSegmentHour == 2

\* the positions of the scenario: latitudes -0.4, 0 and 0.3, longitudes
\* -0.2, 0 and 0.5
SegmentPoints ==
    {TrackPoint([index |-> 0, lat |-> lat, lon |-> lon, alt |-> Fix(12000), hour |-> h], h) :
        lat \in {-4, 0, 3}, lon \in {-2, 0, 5}, h \in 0..MaxSegmentHour}

InitSegment ==
    /\ pc = "start"
    /\ segmentFrom \in SegmentPoints \cup {[t |-> "null"]}
    /\ segmentTo \in SegmentPoints \cup {[t |-> "null"]}
    /\ segmentSpeed = <<0, 1>>
    /\ RefreshIdle
    /\ MotionIdle
    /\ DriftIdle
    /\ RegionIdle /\ FrameIdle /\ SessionIdle
    /\ AppIdle
    /\ vData = Null /\ vHour = 0 /\ vResult = Null
    /\ allHoursData = <<>> /\ processed = <<>> /\ tracks = <<>>
    /\ ClusterIdle

MeasureSegment ==
    /\ pc = "start"
    /\ segmentSpeed' = calculateSegmentSpeed(segmentFrom, segmentTo)
    /\ pc' = "done"
    /\ UNCHANGED <<segmentFrom, segmentTo, refreshVars, motionVars, driftVars, regionVars, frameVars, sessionVars>>
    /\ UNCHANGED <<validatorVars, builderVars, clusterVars, appVars>>

NextSegment == MeasureSegment

SpecSegment == InitSegment /\ [][NextSegment]_vars

-----------------------------------------------------------------------------
(* Properties of the segment speed *)

\* max(1, |hourOffset(a) - hourOffset(b)|)
HoursApart(a, b) ==
    IF Abs(a.hourIndex - b.hourIndex) < 1 THEN 1 ELSE Abs(a.hourIndex - b.hourIndex)

\* C12: for every two track points, also on the equator, the speed of the
\* segment is their distance divided by max(1, difference of their hour
\* offsets).
C12_Claim_DistanceOverHours ==
    (pc = "done" /\ ~IsNullPos(segmentFrom) /\ ~IsNullPos(segmentTo)) =>
        SameQuotient(segmentSpeed,
                     <<getDistance(segmentFrom.lat, segmentFrom.lon, segmentTo.lat, segmentTo.lon),
                       HoursApart(segmentFrom, segmentTo)>>)

-----------------------------------------------------------------------------
(* Scenario: the metrics of the tracks of balloons in steady motion *)

\* most balloons in a snapshot of the motion scenario
MaxMotionBalloons == 2

\* the hours for which the feed has a snapshot: all 25, only the newest,
\* only hour 3, or the two newest
MotionHours == {0..OldestHour, {0}, {3}, {0, 1}}

\* a movement: the position at hour offset 24, the step per hour in tenths
\* of a degree (north, east, or none), the climb per hour in metres, the
\* hours with a snapshot, the number of balloons, and whether the snapshots
\* are listed oldest first
Movements ==
    [startLat : {3, -10}, stepLat : {0, 1}, stepLon : {0, 1}, climb : {0, 1500},
     hours : MotionHours, balloons : 1..MaxMotionBalloons]

\* the position of balloon index at hour offset hour: balloon 1 flies
\* 0.2 degrees east of balloon 0, and the altitude alternates around 12 km
MovingBalloon(m, index, hour) ==
    [t |-> "balloon", index |-> index,
     lat |-> m.startLat + (OldestHour - hour) * m.stepLat,
     lon |-> 2 * index + (OldestHour - hour) * m.stepLon,
     alt |-> Fix(12000) + (IF hour % 2 = 0 THEN Fix(m.climb) ELSE 0),
     hour |-> hour]

\* the snapshots of movement m, from hour offset hour down to 0
RECURSIVE MovingSnapshots(_, _)
MovingSnapshots(m, hour) ==
    IF hour < 0 THEN <<>>
    ELSE (IF hour \in m.hours
          THEN <<[t |-> "snapshot", hour |-> hour,
                  balloons |-> [i \in 1..m.balloons |-> MovingBalloon(m, i - 1, hour)]]>>
          ELSE <<>>) \o MovingSnapshots(m, hour - 1)

InitMotion ==
    /\ pc = "start"
    /\ movement \in {m \in Movements : ~(m.stepLat = 1 /\ m.stepLon = 1)}
    /\ allHoursData = MovingSnapshots(movement, OldestHour)
    /\ processed = <<>> /\ tracks = <<>>
    /\ selectedTrack = <<>> /\ trackSpeeds = <<>> /\ totalDistance = <<>>
    /\ trackStats = <<>> /\ driftVector = <<>> /\ isEddy = FALSE /\ isTurbulent = FALSE
    /\ timeWindow = <<>> /\ filteredTracks = <<>>
    /\ RefreshIdle /\ SegmentIdle /\ DriftIdle /\ RegionIdle /\ FrameIdle /\ SessionIdle
    /\ vData = Null /\ vHour = 0 /\ vResult = Null
    /\ ClusterIdle
    /\ AppIdle

\* const track = tracks[balloonId]
SelectTrack(id) ==
    /\ pc = "done"
    /\ selectedTrack' = IF id \in DOMAIN tracks THEN JArr(tracks[id]) ELSE Undefined
    /\ pc' = "selected"
    /\ UNCHANGED <<movement, trackSpeeds, totalDistance, trackStats, driftVector,
                   isEddy, isTurbulent, timeWindow, filteredTracks>>
    /\ UNCHANGED <<validatorVars, builderVars, clusterVars, appVars, refreshVars, segmentVars,
                   driftVars, regionVars, frameVars, sessionVars>>

\* a track without points
SelectEmptyTrack ==
    /\ pc = "done"
    /\ selectedTrack' = JArr(<<>>)
    /\ pc' = "selected"
    /\ UNCHANGED <<movement, trackSpeeds, totalDistance, trackStats, driftVector,
                   isEddy, isTurbulent, timeWindow, filteredTracks>>
    /\ UNCHANGED <<validatorVars, builderVars, clusterVars, appVars, refreshVars, segmentVars,
                   driftVars, regionVars, frameVars, sessionVars>>

\* track[i] of a track or of undefined's stand-in, 0-based
PointOrNull(trk, i) ==
    IF IsArray(trk) /\ i + 1 <= Len(trk.items) THEN trk.items[i + 1] ELSE [t |-> "null"]

\* the motion metrics applied to the selected track
MeasureTrack ==
    /\ pc = "selected"
    /\ trackSpeeds' = calculateTrackSpeeds(selectedTrack)
    /\ totalDistance' = calculateTotalDistance(selectedTrack)
    /\ trackStats' = calculateTrackStats(selectedTrack)
    /\ driftVector' = calculateDriftVector(PointOrNull(selectedTrack, 0), PointOrNull(selectedTrack, 1))
    /\ isEddy' = detectEddies(selectedTrack)
    /\ isTurbulent' = detectTurbulence(selectedTrack)
    /\ pc' = "measured"
    /\ UNCHANGED <<movement, selectedTrack, timeWindow, filteredTracks>>
    /\ UNCHANGED <<validatorVars, builderVars, clusterVars, appVars, refreshVars, segmentVars,
                   driftVars, regionVars, frameVars, sessionVars>>

\* filterTracksByTime(tracks, startHour, endHour)
FilterTracks(startHour, endHour) ==
    /\ pc = "done"
    /\ timeWindow' = <<startHour, endHour>>
    /\ filteredTracks' = filterTracksByTime(tracks, startHour, endHour)
    /\ pc' = "filtered"
    /\ UNCHANGED <<movement, selectedTrack, trackSpeeds, totalDistance, trackStats, driftVector,
                   isEddy, isTurbulent>>
    /\ UNCHANGED <<validatorVars, builderVars, clusterVars, appVars, refreshVars, segmentVars,
                   driftVars, regionVars, frameVars, sessionVars>>

\* the hour offsets tried as ends of the time window
WindowHours == {0, 1, 3, 23, 25}

NextMotion ==
    \/ ProcessBalloons
    \/ BuildTracks
    \/ \E index \in 0..MaxMotionBalloons : SelectTrack(BalloonId(index))
    \/ SelectEmptyTrack
    \/ MeasureTrack
    \/ \E startHour \in WindowHours : \E endHour \in WindowHours :
          FilterTracks(startHour, endHour)

SpecMotion == InitMotion /\ [][NextMotion]_vars

-----------------------------------------------------------------------------
(* Properties of the motion metrics *)

\* the feed had all 25 snapshots and the selected track is one built from it
FullTrackMeasured ==
    /\ pc = "measured"
    /\ movement.hours = 0..OldestHour
    /\ IsArray(selectedTrack) /\ Len(selectedTrack.items) > 0

\* the constant speed of the movement, in units of 100 m per hour
MovementSpeed == UnitsPerTenthDegree * (movement.stepLat + movement.stepLon)

\* C13: for a track built from 25 hourly snapshots of a balloon in steady
\* straight motion, every segment of the built track has the speed v of
\* the movement.
C13_Claim_ConstantSpeed ==
    FullTrackMeasured =>
        /\ Len(trackSpeeds.items) = Len(selectedTrack.items) - 1
        /\ \A j \in 1..Len(trackSpeeds.items) :
              SameQuotient(trackSpeeds.items[j].speed, <<MovementSpeed, 1>>)

\* the selected track is an array of fewer than 2 points
ShortTrackMeasured ==
    /\ pc = "measured"
    /\ IsArray(selectedTrack)
    /\ Len(selectedTrack.items) < 2

\* the selected track is undefined or has no points
NoTrackMeasured ==
    /\ pc = "measured"
    /\ (IsArray(selectedTrack) => Len(selectedTrack.items) = 0)

\* C14: on a track of fewer than 2 points no motion metric throws:
\* calculateTrackSpeeds returns no speeds, calculateTotalDistance 0,
\* calculateDriftVector the zero vector, detectEddies and detectTurbulence
\* false, and calculateTrackStats zero distance and speeds; on an empty or
\* undefined track calculateTrackStats returns the all-zero object.
C14_ShortTracksGiveZero ==
    /\ ShortTrackMeasured =>
          /\ trackSpeeds = JArr(<<>>)
          /\ totalDistance = JNum(0)
          /\ driftVector = [speed |-> <<0, 1>>, direction |-> 0]
          /\ isEddy = FALSE
          /\ isTurbulent = FALSE
          /\ trackStats.totalDistance = 0
          /\ trackStats.averageSpeed = <<0, 1>>
          /\ trackStats.maxSpeed = <<0, 1>>
          /\ trackStats.minSpeed = <<0, 1>>
    /\ NoTrackMeasured =>
          /\ trackStats = ZeroTrackStats
          /\ driftVector = [speed |-> <<0, 1>>, direction |-> 0]
          /\ isEddy = FALSE
          /\ isTurbulent = FALSE

\* a balloon seen in one snapshot only: its track of one point was measured
C14_Witness ==
    /\ ShortTrackMeasured
    /\ Len(selectedTrack.items) = 1
    /\ trackStats.duration = 1
    /\ trackSpeeds = JArr(<<>>)

\* the hour offsets of the track of id that lie in the time window
HoursInWindow(id) ==
    {tracks[id][j].hourIndex : j \in 1..Len(tracks[id])}
        \cap (timeWindow[1]..timeWindow[2])

\* the position in the track of id of its point at hour offset h
PlaceOf(id, h) == CHOOSE j \in 1..Len(tracks[id]) : tracks[id][j].hourIndex = h

\* C16: the filtered map has exactly the balloons with a point in the
\* closed window; the filtered track of each holds exactly the points of
\* the window, each once, in the order of the original track; the tracks
\* given to the filter are as they were built.
C16_FilterKeepsWindow ==
    pc = "filtered" =>
        /\ DOMAIN filteredTracks = {id \in DOMAIN tracks : HoursInWindow(id) # {}}
        /\ \A id \in DOMAIN filteredTracks :
              LET kept == filteredTracks[id]
              IN  /\ {kept[j].hourIndex : j \in 1..Len(kept)} = HoursInWindow(id)
                  /\ Len(kept) = Cardinality(HoursInWindow(id))
                  /\ \A j \in 1..Len(kept) : kept[j] = tracks[id][PlaceOf(id, kept[j].hourIndex)]
                  /\ \A j \in 1..(Len(kept) - 1) :
                        PlaceOf(id, kept[j].hourIndex) < PlaceOf(id, kept[j + 1].hourIndex)
        /\ tracks = processConstellationHistory(allHoursData)

\* the window 1..23 cuts the points of hour 0, 24 and 25 from a full track
C16_Witness ==
    /\ pc = "filtered"
    /\ timeWindow = <<1, 23>>
    /\ BalloonId(0) \in DOMAIN filteredTracks
    /\ Len(tracks[BalloonId(0)]) = 26
    /\ Len(filteredTracks[BalloonId(0)]) = 23

-----------------------------------------------------------------------------
(* Drift error against the weather model *)

\* results[index] of getWeatherDataForTrack for one point: a fresh cache
\* entry or a fetched forecast gives an object, where a speed or direction
\* the forecast lacks for the hour is 0; a location found invalid, an error
\* status, a body without hourly data and a failed fetch leave the slot
\* undefined
WeatherResult(outcome) ==
    CASE outcome.kind = "cached" -> [speed |-> outcome.speed, direction |-> outcome.direction]
      [] outcome.kind = "fetched" ->
            [speed |-> IF outcome.hasHour THEN outcome.speed ELSE 0,
             direction |-> IF outcome.hasHour THEN outcome.direction ELSE 0]
      [] OTHER -> [t |-> "undefined"]

\* modelDrift?.speed || 0 and modelDrift?.direction || 0
ModelOrZero(model, field) ==
    IF field \in DOMAIN model THEN model[field] ELSE 0

\* calculateDriftError(actualDrift, modelDrift): speeds and degrees as
\* representations, the magnitude rounded down
calculateDriftError(actual, model) ==
    LET speedError == actual.speed - ModelOrZero(model, "speed")
        directionError == Abs(actual.direction - ModelOrZero(model, "direction"))
    IN  [speedError |-> speedError,
         directionError |-> directionError,
         magnitude |-> SqrtBetween(speedError * speedError
                                     + directionError * directionError, 0, 46340)]

\* the entry of modelAccuracyData for a point of speed actualSpeed;
\* percentError is kept as the quotient it is computed from
AccuracyEntry(actualSpeed, weather) ==
    LET modelSpeed == ModelOrZero(weather, "speed")
    IN  [actual |-> actualSpeed,
         model |-> modelSpeed,
         difference |-> actualSpeed - modelSpeed,
         absDifference |-> Abs(actualSpeed - modelSpeed),
         percentError |-> IF modelSpeed > 0
                          THEN <<100 * Abs(actualSpeed - modelSpeed), modelSpeed>>
                          ELSE <<0, 1>>]

-----------------------------------------------------------------------------
(* Scenario: the drift of one point compared with the weather model *)

\* measured drifts: 0, 44 and 111 km/h towards north, east and west
ActualDrifts == [speed : {0, Fix(44), Fix(111)}, direction : {0, Fix(90), Fix(270)}]

\* outcomes of the weather lookup of one point
WeatherOutcomes ==
    [kind : {"cached", "fetched"}, hasHour : BOOLEAN,
     speed : {0, Fix(30), Fix(44)}, direction : {Fix(90), Fix(180)}]
    \cup [kind : {"invalidLocation", "notOk", "noHourly", "fetchFailed"}]

InitDrift ==
    /\ pc = "start"
    /\ actualDrift \in ActualDrifts
    /\ weatherOutcome \in WeatherOutcomes
    /\ modelDrift = <<>> /\ driftError = <<>> /\ modelAccuracy = <<>>
    /\ RefreshIdle /\ SegmentIdle /\ MotionIdle /\ RegionIdle /\ FrameIdle /\ SessionIdle
    /\ AppIdle
    /\ vData = Null /\ vHour = 0 /\ vResult = Null
    /\ allHoursData = <<>> /\ processed = <<>> /\ tracks = <<>>
    /\ ClusterIdle

\* getWeatherDataForTrack resolves
LookupWeather ==
    /\ pc = "start"
    /\ modelDrift' = WeatherResult(weatherOutcome)
    /\ pc' = "looked"
    /\ UNCHANGED <<actualDrift, weatherOutcome, driftError, modelAccuracy>>
    /\ UNCHANGED <<validatorVars, builderVars, clusterVars, appVars, refreshVars, segmentVars,
                   motionVars, regionVars, frameVars, sessionVars>>

\* the comparison of the point with the model
CompareDrift ==
    /\ pc = "looked"
    /\ driftError' = calculateDriftError(actualDrift, modelDrift)
    /\ modelAccuracy' = AccuracyEntry(actualDrift.speed, modelDrift)
    /\ pc' = "done"
    /\ UNCHANGED <<actualDrift, weatherOutcome, modelDrift>>
    /\ UNCHANGED <<validatorVars, builderVars, clusterVars, appVars, refreshVars, segmentVars,
                   motionVars, regionVars, frameVars, sessionVars>>

NextDrift == LookupWeather \/ CompareDrift

SpecDrift == InitDrift /\ [][NextDrift]_vars

-----------------------------------------------------------------------------
(* Properties of the drift comparison *)

\* the lookup gave no model data for the point
LookupMissed == "speed" \notin DOMAIN modelDrift

\* C15: when the weather lookup gives no model data, the comparison is
\* reported as not available: no speed or direction error is computed
\* against a model value of 0.
C15_Claim_NoComparisonOnMiss ==
    (pc = "done" /\ LookupMissed) =>
        /\ "speedError" \notin DOMAIN driftError
        /\ "difference" \notin DOMAIN modelAccuracy

-----------------------------------------------------------------------------
(* Scenario: regions and density of a fleet *)

\* most balloons of the fleet
MaxFleet == 2

\* positions <<lat, lon>> in tenths of a degree: the two examples of the
\* region classifier, points on the ends of the longitude bands and of the
\* latitude splits, the poles and the date line, and points with negative
\* coordinates on and off the multiples of the cell sizes
RegionPositions ==
    <<<<400, -1000>>, <<100, 900>>, <<99, 900>>, <<400, -700>>,
      <<350, 200>>, <<0, 600>>, <<-1, 400>>, <<760, -1000>>,
      <<150, -1800>>, <<0, 1500>>, <<0, 1501>>, <<-900, 1800>>,
      <<900, 0>>, <<-1, -1>>, <<-100, -100>>, <<751, 599>>>>

FleetBalloon(n, place) ==
    [id |-> BalloonId(n),
     currentPosition |-> [lat |-> RegionPositions[place][1],
                          lon |-> RegionPositions[place][2],
                          alt |-> Fix(12000)]]

\* the fleets of n balloons
Fleets(n) ==
    {[j \in 1..n |-> FleetBalloon(j, places[j])] :
        places \in [1..n -> 1..Len(RegionPositions)]}

\* the cell sizes tried, in degrees
CellSizes == {1, 10, 45}

InitRegion ==
    /\ pc = "start"
    /\ \E n \in 0..MaxFleet : fleet \in Fleets(n)
    /\ cellSize \in CellSizes
    /\ balloonRegions = <<>> /\ regionCounts = <<>> /\ densityCells = <<>>
    /\ RefreshIdle /\ SegmentIdle /\ MotionIdle /\ DriftIdle /\ FrameIdle /\ SessionIdle
    /\ AppIdle
    /\ vData = Null /\ vHour = 0 /\ vResult = Null
    /\ allHoursData = <<>> /\ processed = <<>> /\ tracks = <<>>
    /\ ClusterIdle

\* getRegion of every balloon and calculateRegionalDistribution of the fleet
ClassifyFleet ==
    /\ pc = "start"
    /\ balloonRegions' = [j \in 1..Len(fleet) |-> getRegion(fleet[j].currentPosition)]
    /\ regionCounts' = calculateRegionalDistribution(fleet)
    /\ pc' = "classified"
    /\ UNCHANGED <<fleet, cellSize, densityCells>>
    /\ UNCHANGED <<validatorVars, builderVars, clusterVars, appVars, refreshVars, segmentVars,
                   motionVars, driftVars, frameVars, sessionVars>>

\* calculateDensity(fleet, cellSize)
GridFleet ==
    /\ pc = "classified"
    /\ densityCells' = calculateDensity(fleet, cellSize)
    /\ pc' = "done"
    /\ UNCHANGED <<fleet, cellSize, balloonRegions, regionCounts>>
    /\ UNCHANGED <<validatorVars, builderVars, clusterVars, appVars, refreshVars, segmentVars,
                   motionVars, driftVars, frameVars, sessionVars>>

NextRegion == ClassifyFleet \/ GridFleet

SpecRegion == InitRegion /\ [][NextRegion]_vars

-----------------------------------------------------------------------------
(* Properties of the region classifier *)

RegionTags == {"northAmerica", "atlantic", "europe", "other", "indian", "asia", "pacific"}

\* the longitude bands as their conditions are written, west to east
InBand(band, lon) ==
    CASE band = 1 -> lon >= Fix(-180) /\ lon <= Fix(-70)
      [] band = 2 -> lon >= Fix(-70) /\ lon <= Fix(20)
      [] band = 3 -> lon >= Fix(20) /\ lon <= Fix(60)
      [] band = 4 -> lon >= Fix(60) /\ lon <= Fix(150)

BandsOf(lon) == {band \in 1..4 : InBand(band, lon)}

\* the region a band gives to a latitude
RegionInBand(band, lat) ==
    CASE band = 1 -> IF lat >= Fix(15) /\ lat <= Fix(75) THEN "northAmerica" ELSE "atlantic"
      [] band = 2 -> "atlantic"
      [] band = 3 -> IF lat >= Fix(35) /\ lat <= Fix(75) THEN "europe"
                     ELSE IF lat >= 0 /\ lat <= Fix(35) THEN "other" ELSE "indian"
      [] band = 4 -> IF lat >= Fix(10) THEN "asia" ELSE "indian"

\* the regions the bands holding the longitude give to the position
RegionsByBands(position) ==
    IF BandsOf(position.lon) = {} THEN {"pacific"}
    ELSE {RegionInBand(band, position.lat) : band \in BandsOf(position.lon)}

Classified == pc \in {"classified", "done"}

\* C17 as claimed: every position gets one of the seven tags, no longitude
\* satisfies the conditions of two bands, so that the tag is the one of the
\* only band holding the longitude whatever the order of the tests;
\* (40, -100) is northAmerica and (10, 90) is asia.
C17_Original_BandsDisjoint ==
    Classified =>
        \A j \in 1..Len(fleet) :
            LET position == fleet[j].currentPosition
            IN  /\ balloonRegions[j] \in RegionTags
                /\ Cardinality(BandsOf(position.lon)) <= 1
                /\ RegionsByBands(position) = {balloonRegions[j]}
                /\ (position.lat = Fix(40) /\ position.lon = Fix(-100))
                      => balloonRegions[j] = "northAmerica"
                /\ (position.lat = Fix(10) /\ position.lon = Fix(90))
                      => balloonRegions[j] = "asia"

\* the westernmost band holding the longitude
FirstBand(lon) == CHOOSE band \in BandsOf(lon) : \A other \in BandsOf(lon) : band <= other

\* What getRegion does at the shared ends: every position gets one of the
\* seven tags; the bands are closed at both ends, so the longitudes -70, 20
\* and 60, and only they, satisfy two bands, and there the band tested
\* first, the western one, decides.
FirstBandDecides ==
    Classified =>
        \A j \in 1..Len(fleet) :
            LET position == fleet[j].currentPosition
            IN  /\ balloonRegions[j] \in RegionTags
                /\ Cardinality(BandsOf(position.lon)) = 2
                      <=> position.lon \in {Fix(-70), Fix(20), Fix(60)}
                /\ Cardinality(BandsOf(position.lon)) <= 2
                /\ balloonRegions[j] =
                      IF BandsOf(position.lon) = {} THEN "pacific"
                      ELSE RegionInBand(FirstBand(position.lon), position.lat)
                /\ (position.lat = Fix(40) /\ position.lon = Fix(-100))
                      => balloonRegions[j] = "northAmerica"
                /\ (position.lat = Fix(10) /\ position.lon = Fix(90))
                      => balloonRegions[j] = "asia"

\* a balloon at (40, -70), on the shared end of the first two bands, is
\* northAmerica although the second band would make it atlantic; with it
\* the balloon (10, 90)
SharedEndClassified ==
    /\ Classified
    /\ Len(fleet) = 2
    /\ fleet[1].currentPosition.lat = Fix(40) /\ fleet[1].currentPosition.lon = Fix(-70)
    /\ balloonRegions[1] = "northAmerica"
    /\ RegionsByBands(fleet[1].currentPosition) = {"northAmerica", "atlantic"}
    /\ fleet[2].currentPosition.lat = Fix(10) /\ fleet[2].currentPosition.lon = Fix(90)
    /\ balloonRegions[2] = "asia"

-----------------------------------------------------------------------------
(* Properties of the regional distribution and of the density grid *)

BalloonsTagged(tag) == {j \in 1..Len(fleet) : balloonRegions[j] = tag}

NorthernBalloons == {j \in 1..Len(fleet) : fleet[j].currentPosition.lat >= 0}

\* C18: calculateRegionalDistribution counts each balloon in exactly one
\* region and one hemisphere: the seven region counts sum to the number of
\* balloons, northernHem + southernHem is the number of balloons with
\* northernHem the balloons of latitude >= 0, and each region count is the
\* number of balloons for which getRegion returns that region.
C18_CountsMatchGetRegion ==
    Classified =>
        /\ regionCounts.northAmerica + regionCounts.atlantic + regionCounts.europe
             + regionCounts.other + regionCounts.indian + regionCounts.asia
             + regionCounts.pacific = Len(fleet)
        /\ regionCounts.northernHem + regionCounts.southernHem = Len(fleet)
        /\ regionCounts.northernHem = Cardinality(NorthernBalloons)
        /\ \A tag \in RegionTags : regionCounts[tag] = Cardinality(BalloonsTagged(tag))

\* a balloon on the asia side of the lat-10 split and one just south of
\* the equator in the third band
C18_Witness ==
    /\ Classified
    /\ Len(fleet) = 2
    /\ fleet[1].currentPosition.lat = Fix(10) /\ fleet[1].currentPosition.lon = Fix(90)
    /\ fleet[2].currentPosition.lat = -1 /\ fleet[2].currentPosition.lon = Fix(40)
    /\ regionCounts.asia = 1 /\ regionCounts.indian = 1
    /\ regionCounts.northernHem = 1 /\ regionCounts.southernHem = 1

\* the cells of the grid holding a position
CellsHolding(position) ==
    {c \in 1..Len(densityCells) :
        /\ densityCells[c].lat <= position.lat
        /\ position.lat < densityCells[c].lat + Fix(cellSize)
        /\ densityCells[c].lon <= position.lon
        /\ position.lon < densityCells[c].lon + Fix(cellSize)}

BalloonsInCell(c) == {j \in 1..Len(fleet) : c \in CellsHolding(fleet[j].currentPosition)}

\* C19: calculateDensity counts each balloon in exactly one cell, whose key
\* is a multiple of the cell size with cell.lat <= lat < cell.lat + s and
\* cell.lon <= lon < cell.lon + s, also for negative coordinates; the
\* cells have pairwise distinct keys, each has count >= 1, and the counts
\* sum to the number of balloons.
C19_EachBalloonInOneCell ==
    pc = "done" =>
        /\ \A j \in 1..Len(fleet) : Cardinality(CellsHolding(fleet[j].currentPosition)) = 1
        /\ \A c \in 1..Len(densityCells) :
              /\ densityCells[c].lat % Fix(cellSize) = 0
              /\ densityCells[c].lon % Fix(cellSize) = 0
              /\ densityCells[c].count >= 1
              /\ densityCells[c].count = Cardinality(BalloonsInCell(c))
              /\ \A d \in 1..Len(densityCells) :
                    (densityCells[c].lat = densityCells[d].lat
                       /\ densityCells[c].lon = densityCells[d].lon) => c = d
        /\ SumCounts(densityCells) = Len(fleet)

\* two balloons with negative coordinates, one off and one on a multiple of
\* the cell size, share the cell keyed (-10, -10)
C19_Witness ==
    /\ pc = "done"
    /\ cellSize = 10
    /\ Len(fleet) = 2
    /\ fleet[1].currentPosition.lat = -1 /\ fleet[1].currentPosition.lon = -1
    /\ fleet[2].currentPosition.lat = Fix(-10) /\ fleet[2].currentPosition.lon = Fix(-10)
    /\ Len(densityCells) = 1
    /\ densityCells[1] = [lat |-> Fix(-10), lon |-> Fix(-10), count |-> 2]

-----------------------------------------------------------------------------
(* Scenario: the analytics operations on arrays in memory                  *)
(*                                                                         *)
(* A JavaScript array is an object with an identity: push, sort and shift  *)
(* change the array they are applied to, for every holder of a reference   *)
(* to it.  Here the memory is the list of the arrays made so far, the      *)
(* reference of an array is its position in the list, and an object that   *)
(* holds an array holds its reference.                                     *)

\* [] and every expression that makes a new array (map, filter, spread,
\* Object.values): the array gets the next reference
NewArray(mem, items) == Append(mem, items)

\* track.sort((a, b) => a.hourIndex - b.hourIndex), in place
SortTrackInPlace(mem, ref) == [mem EXCEPT ![ref] = SortByHourIndex(@)]

\* array.sort((a, b) => a.hour - b.hour), in place
SortByHourInPlace(mem, ref) == [mem EXCEPT ![ref] = SortByHour(@)]

\* the snapshots read through the array of reference ref
SnapshotsAt(mem, ref) == [i \in 1..Len(mem[ref]) |-> [mem[ref][i] EXCEPT !.balloons = mem[@]]]

\* the tracks object in front of the final sort: per id the pushed points
PushedTracks(all) == AddFuturePoints(all, BuildRealPoints(all, OldestHour, <<>>))

\* tracks[balloonId] = [], the pushes to it and track.sort, for the
\* balloons of index n and more
RECURSIVE StoreTracks(_, _, _, _)
StoreTracks(mem, pushed, refs, n) ==
    IF n > MaxMotionBalloons THEN [mem |-> mem, tracks |-> refs]
    ELSE IF BalloonId(n) \notin DOMAIN pushed THEN StoreTracks(mem, pushed, refs, n + 1)
    ELSE StoreTracks(SortTrackInPlace(NewArray(mem, pushed[BalloonId(n)]), Len(mem) + 1),
                     pushed, (BalloonId(n) :> (Len(mem) + 1)) @@ refs, n + 1)

\* processConstellationHistory that first sorts the array it is given
processConstellationHistorySortingInput(mem, ref) ==
    StoreTracks(SortByHourInPlace(mem, ref),
                PushedTracks(SnapshotsAt(SortByHourInPlace(mem, ref), ref)), <<>>, 0)

\* processConstellationHistory(all24HoursData) with its effect on the memory
processConstellationHistoryInMemory(mem, ref) ==
    StoreTracks(mem, PushedTracks(SnapshotsAt(mem, ref)), <<>>, 0)

\* positionsArray: [] with the pushes to it, sorted in place by the callback
\* of map, for the entries j and more of balloonMap; then the array map returns
RECURSIVE StoreBalloons(_, _, _, _)
StoreBalloons(mem, map, made, j) ==
    IF j > Len(map.order) THEN [mem |-> NewArray(mem, made), ref |-> Len(mem) + 1]
    ELSE StoreBalloons(
             SortByHourInPlace(NewArray(mem, map.byId[map.order[j]].positionsArray),
                               Len(mem) + 1),
             map,
             Append(made, [FinishBalloon(map.order[j], map.byId[map.order[j]])
                              EXCEPT !.positions = Len(mem) + 1]),
             j + 1)

\* processBalloonData(allHoursData) with its effect on the memory
processBalloonDataInMemory(mem, ref) ==
    StoreBalloons(mem, GroupAll([order |-> <<>>, byId |-> <<>>], SnapshotsAt(mem, ref), 1),
                  <<>>, 1)

\* const cluster = [balloon] with the pushes to it, for the clusters c and
\* more; then the array clusters
RECURSIVE StoreClusters(_, _, _, _)
StoreClusters(mem, clusters, made, c) ==
    IF c > Len(clusters) THEN NewArray(mem, made)
    ELSE StoreClusters(NewArray(mem, clusters[c].balloons), clusters,
                       Append(made, [clusters[c] EXCEPT !.balloons = Len(mem) + 1]), c + 1)

\* the arrays an operation can reach from the array of snapshots, from the
\* balloon list, from a track
SnapshotArrays(mem, ref) == {ref} \cup {mem[ref][i].balloons : i \in 1..Len(mem[ref])}

FleetArrays(mem, ref) == {ref} \cup {mem[ref][j].positions : j \in 1..Len(mem[ref])}

\* the arrays of refs are given to an operation: their content is noted
\* the first time
Given(refs) == argsSeen @@ [r \in refs |-> heap[r]]

\* the eps, minPts and altitudeWeight given to detectClusters
FrameConfig == [eps |-> 100, minPts |-> 1, altitudeWeight |-> 3]

InitFrame ==
    /\ pc = "start"
    /\ \E m \in {mv \in Movements : ~(mv.stepLat = 1 /\ mv.stepLon = 1)} :
          LET all == MovingSnapshots(m, OldestHour)
          IN  /\ heap = [i \in 1..(Len(all) + 1) |->
                            IF i <= Len(all) THEN all[i].balloons
                            ELSE [k \in 1..Len(all) |-> [all[k] EXCEPT !.balloons = k]]]
              /\ allRef = Len(all) + 1
    /\ fleetRef = 0 /\ trackRefs = <<>>
    /\ argsSeen = <<>> /\ called = {} /\ returned = <<>>
    /\ RefreshIdle /\ SegmentIdle /\ MotionIdle /\ DriftIdle /\ RegionIdle /\ SessionIdle
    /\ AppIdle
    /\ vData = Null /\ vHour = 0 /\ vResult = Null
    /\ allHoursData = <<>> /\ processed = <<>> /\ tracks = <<>>
    /\ ClusterIdle

\* what every call leaves alone
OtherScenariosUnchanged ==
    UNCHANGED <<validatorVars, builderVars, clusterVars, appVars, refreshVars, segmentVars,
                motionVars, driftVars, regionVars, sessionVars>>

\* const processed = processBalloonData(allHoursData)
CallProcessBalloonData ==
    /\ pc = "start"
    /\ LET out == processBalloonDataInMemory(heap, allRef)
       IN  /\ heap' = out.mem
           /\ fleetRef' = out.ref
           /\ returned' = ("processBalloonData" :> out.ref) @@ returned
    /\ argsSeen' = Given(SnapshotArrays(heap, allRef))
    /\ called' = called \cup {"processBalloonData"}
    /\ pc' = "processed"
    /\ UNCHANGED <<allRef, trackRefs>>
    /\ OtherScenariosUnchanged

\* const trajectoryTracks = processConstellationHistory(allHoursData)
CallProcessConstellationHistory ==
    /\ pc = "processed"
    /\ LET out == processConstellationHistoryInMemory(heap, allRef)
       IN  /\ heap' = out.mem
           /\ trackRefs' = out.tracks
           /\ returned' = ("processConstellationHistory" :> out.tracks) @@ returned
    /\ argsSeen' = Given(SnapshotArrays(heap, allRef))
    /\ called' = called \cup {"processConstellationHistory"}
    /\ pc' = "built"
    /\ UNCHANGED <<allRef, fleetRef>>
    /\ OtherScenariosUnchanged

\* calculateRegionalDistribution(processed): counters of a new object
CallCalculateRegionalDistribution ==
    /\ pc = "built"
    /\ returned' = ("calculateRegionalDistribution"
                       :> calculateRegionalDistribution(heap[fleetRef])) @@ returned
    /\ argsSeen' = Given(FleetArrays(heap, fleetRef))
    /\ called' = called \cup {"calculateRegionalDistribution"}
    /\ pc' = "counted"
    /\ UNCHANGED <<heap, allRef, fleetRef, trackRefs>>
    /\ OtherScenariosUnchanged

\* detectClusters(processed, config): the filter results and the queue are
\* new arrays no result holds; the clusters and their list are kept
CallDetectClusters ==
    /\ pc = "counted"
    /\ LET clusters == detectClusters(heap[fleetRef], FrameConfig)
       IN  /\ heap' = StoreClusters(heap, clusters, <<>>, 1)
           /\ returned' = ("detectClusters" :> clusters) @@ returned
    /\ argsSeen' = Given(FleetArrays(heap, fleetRef))
    /\ called' = called \cup {"detectClusters"}
    /\ pc' = "clustered"
    /\ UNCHANGED <<allRef, fleetRef, trackRefs>>
    /\ OtherScenariosUnchanged

\* calculateDensity(processed): Object.values(grid) is a new array
CallCalculateDensity ==
    /\ pc = "clustered"
    /\ heap' = NewArray(heap, calculateDensity(heap[fleetRef], DefaultGridSize))
    /\ returned' = ("calculateDensity" :> (Len(heap) + 1)) @@ returned
    /\ argsSeen' = Given(FleetArrays(heap, fleetRef))
    /\ called' = called \cup {"calculateDensity"}
    /\ pc' = "gridded"
    /\ UNCHANGED <<allRef, fleetRef, trackRefs>>
    /\ OtherScenariosUnchanged

\* calculateTrackStats(tracks[id]): speeds and the mapped arrays are new
\* arrays the returned object does not hold
CallCalculateTrackStats(id) ==
    /\ pc = "gridded"
    /\ id \in DOMAIN trackRefs
    /\ returned' = ("calculateTrackStats"
                       :> calculateTrackStats(JArr(heap[trackRefs[id]]))) @@ returned
    /\ argsSeen' = Given({trackRefs[id]})
    /\ called' = called \cup {"calculateTrackStats"}
    /\ pc' = "measured"
    /\ UNCHANGED <<heap, allRef, fleetRef, trackRefs>>
    /\ OtherScenariosUnchanged

\* detectEddies(tracks[id])
CallDetectEddies(id) ==
    /\ pc = "measured"
    /\ id \in DOMAIN trackRefs
    /\ returned' = ("detectEddies" :> detectEddies(JArr(heap[trackRefs[id]]))) @@ returned
    /\ argsSeen' = Given({trackRefs[id]})
    /\ called' = called \cup {"detectEddies"}
    /\ pc' = "eddies"
    /\ UNCHANGED <<heap, allRef, fleetRef, trackRefs>>
    /\ OtherScenariosUnchanged

\* detectTurbulence(tracks[id])
CallDetectTurbulence(id) ==
    /\ pc = "eddies"
    /\ id \in DOMAIN trackRefs
    /\ returned' = ("detectTurbulence"
                       :> detectTurbulence(JArr(heap[trackRefs[id]]))) @@ returned
    /\ argsSeen' = Given({trackRefs[id]})
    /\ called' = called \cup {"detectTurbulence"}
    /\ pc' = "done"
    /\ UNCHANGED <<heap, allRef, fleetRef, trackRefs>>
    /\ OtherScenariosUnchanged

NextFrame ==
    \/ CallProcessBalloonData
    \/ CallProcessConstellationHistory
    \/ CallCalculateRegionalDistribution
    \/ CallDetectClusters
    \/ CallCalculateDensity
    \/ \E index \in 0..MaxMotionBalloons : CallCalculateTrackStats(BalloonId(index))
    \/ \E index \in 0..MaxMotionBalloons : CallDetectEddies(BalloonId(index))
    \/ \E index \in 0..MaxMotionBalloons : CallDetectTurbulence(BalloonId(index))

SpecFrame == InitFrame /\ [][NextFrame]_vars

-----------------------------------------------------------------------------
(* Properties of the operations on arrays in memory *)

AnalyticsOperations ==
    {"processConstellationHistory", "processBalloonData", "detectClusters", "calculateDensity",
     "calculateRegionalDistribution", "calculateTrackStats", "detectEddies", "detectTurbulence"}

\* C20: every analytics operation leaves the arrays it is given, the
\* snapshots and their balloon lists, the balloon list and its position
\* lists, the tracks, as they were when it got them: same elements, same
\* order, same field values.
C20_InputsUnchanged ==
    /\ called \subseteq AnalyticsOperations
    /\ \A r \in DOMAIN argsSeen : heap[r] = argsSeen[r]

\* all eight operations ran on a feed of 25 snapshots of two balloons
\* listed from hour 24 down to hour 0: the builders made new arrays and
\* sorted them in place, so that every track starts with hourIndex 0
\* although its first pushed point has hourIndex 24, and the two balloons
\* form a cluster
C20_Witness ==
    /\ pc = "done"
    /\ called = AnalyticsOperations
    /\ Len(heap[allRef]) = OldestHour + 1
    /\ heap[allRef][1].hour = OldestHour
    /\ SnapshotArrays(heap, allRef) \cup FleetArrays(heap, fleetRef) \subseteq DOMAIN argsSeen
    /\ Len(heap[fleetRef]) = 2
    /\ \A id \in DOMAIN trackRefs :
          /\ Len(heap[trackRefs[id]]) = OldestHour + 2
          /\ heap[trackRefs[id]][1].hourIndex = 0
    /\ \E id \in DOMAIN trackRefs : trackRefs[id] \in DOMAIN argsSeen
    /\ Len(returned["detectClusters"]) = 1
    /\ Len(heap) > allRef + 4

-----------------------------------------------------------------------------
(* Weather service: pressure levels, cache and rate limit                  *)
(*                                                                         *)
(* Latitudes and longitudes of this part are in thousandths of a degree,   *)
(* altitudes are representations of metres, times are in ms.               *)

\* getPressureLevel of the analytics service, imported by the data service
analytics_getPressureLevel(altitudeMeters) ==
    IF altitudeMeters < Fix(1000) THEN "1000hPa"
    ELSE IF altitudeMeters < Fix(5000) THEN "700hPa"
    ELSE IF altitudeMeters < Fix(9000) THEN "500hPa"
    ELSE IF altitudeMeters < Fix(14000) THEN "200hPa"
    ELSE IF altitudeMeters < Fix(20000) THEN "100hPa"
    ELSE "50hPa"

\* getPressureLevel of the trajectory engine, imported by the weather service
trajectoryEngine_getPressureLevel(altitude) ==
    IF altitude >= Fix(14000) THEN "100hPa"
    ELSE IF altitude >= Fix(10000) THEN "200hPa"
    ELSE IF altitude >= Fix(8000) THEN "300hPa"
    ELSE IF altitude >= Fix(4000) THEN "500hPa"
    ELSE IF altitude >= Fix(2000) THEN "700hPa"
    ELSE "850hPa"

\* const API_RATE_LIMIT = 1000
API_RATE_LIMIT == 1000

\* the age below which a cache entry is served: 3600000 ms
CacheLifetime == 3600000

\* a number of degrees in thousandths
Milli(k) == 1000 * k

isValidWeatherLocation(lat, lon) ==
    lat >= Milli(-60) /\ lat <= Milli(75) /\ lon >= Milli(-180) /\ lon <= Milli(180)

\* x.toFixed(2): the sign and the hundredths nearest to the magnitude
ToFixed2(x) == <<x < 0, (Abs(x) + 5) \div 10>>

\* the part of a key that a key of another form does not have
NoPart == -1

\* `${lat.toFixed(2)}-${lon.toFixed(2)}-${getPressureLevel(alt)}`
LocationKey(point) ==
    [form |-> "location", balloonId |-> NoPart, hourIndex |-> NoPart,
     lat |-> ToFixed2(point.lat), lon |-> ToFixed2(point.lon),
     level |-> trajectoryEngine_getPressureLevel(point.alt)]

\* `${balloonId}-${hourIndex}-${lat.toFixed(2)}-${lon.toFixed(2)}-${getPressureLevel(alt)}`
TrackKey(balloonId, point) ==
    [form |-> "track", balloonId |-> balloonId, hourIndex |-> point.hourIndex,
     lat |-> ToFixed2(point.lat), lon |-> ToFixed2(point.lon),
     level |-> trajectoryEngine_getPressureLevel(point.alt)]

\* `${lat.toFixed(2)}-${lon.toFixed(2)}-${getPressureLevel(alt)}-${hourIndex}`
LocationHourKey(point) ==
    [form |-> "locationHour", balloonId |-> NoPart, hourIndex |-> point.hourIndex,
     lat |-> ToFixed2(point.lat), lon |-> ToFixed2(point.lon),
     level |-> trajectoryEngine_getPressureLevel(point.alt)]

\* cached && Date.now() - cached.timestamp < 3600000
Fresh(key) ==
    /\ key \in DOMAIN weatherCache
    /\ clock - weatherCache[key].timestamp < CacheLifetime

\* a lookup returns the data of the entry of the key, stored age ms ago
CacheReturn(by, path, point, key) ==
    [by |-> by, path |-> path, alt |-> point.alt, level |-> key.level, hit |-> TRUE,
     age |-> clock - weatherCache[key].timestamp]

\* a lookup returns null, an empty list, or what it has just fetched
PlainReturn(by, path, point, level) ==
    [by |-> by, path |-> path, alt |-> point.alt, level |-> level, hit |-> FALSE, age |-> 0]

\* fetch(url) with the pressure level in the url
Request(by, point, level) ==
    [by |-> by, at |-> clock, lat |-> point.lat, lon |-> point.lon, alt |-> point.alt,
     level |-> level]

\* a call suspended at an await: waiting for its timer or for the response
Task(by, state, point, level, wakeAt, hours, balloonId) ==
    [by |-> by, state |-> state, now |-> clock, wakeAt |-> wakeAt, point |-> point,
     level |-> level, hours |-> hours, balloonId |-> balloonId]

\* the result object built from a response with hourly data
WeatherData(task) ==
    [speed |-> Fix(30), direction |-> Fix(90), pressureLevel |-> task.level,
     timestamp |-> task.now]

RemoveAt(seq, i) == SubSeq(seq, 1, i - 1) \o SubSeq(seq, i + 1, Len(seq))

\* the points of the weather scenario: three valid locations, one that
\* rounds to the key of the first, one outside the valid latitudes
PointA == [lat |-> 10004, lon |-> 20000, alt |-> Fix(500), hourIndex |-> 0]

PointANear == [lat |-> 10001, lon |-> 20000, alt |-> Fix(700), hourIndex |-> 1]

PointB == [lat |-> -5250, lon |-> 30000, alt |-> Fix(12000), hourIndex |-> 1]

PointC == [lat |-> 40000, lon |-> -100000, alt |-> Fix(25000), hourIndex |-> 2]

PointX == [lat |-> 80000, lon |-> 0, alt |-> Fix(12000), hourIndex |-> 0]

WeatherPoints == {PointA, PointB, PointX}

\* the tracks given to getWeatherDataForTrack: none, one of two locations,
\* one of three locations
WeatherTracks == {<<>>, <<PointA, PointANear, PointB>>, <<PointA, PointB, PointC>>}

\* selectedTrack[0]?.id
WeatherBalloon == 7

\* how the weather API answers a request
WeatherReplies == {"data", "notOk", "noHourly", "failed"}

\* the steps by which time passes
ClockSteps == {API_RATE_LIMIT, CacheLifetime}

\* Date.now() when the page is opened
Epoch == 7200000

\* most requests sent in a session
MaxWeatherCalls == 3

\* most times time passes in steps of less than the cache lifetime
MaxShortSteps == 2

InitWeather ==
    /\ pc = "start"
    /\ clock = Epoch /\ weatherCache = <<>> /\ lastApiCall = 0
    /\ requests = <<>> /\ tasks = <<>> /\ lookup = NoReturn
    /\ PlaybackIdle /\ RunIdle
    /\ RefreshIdle /\ SegmentIdle /\ MotionIdle /\ DriftIdle /\ RegionIdle /\ FrameIdle
    /\ AppIdle
    /\ vData = Null /\ vHour = 0 /\ vResult = Null
    /\ allHoursData = <<>> /\ processed = <<>> /\ tracks = <<>>
    /\ ClusterIdle

\* what the weather actions leave alone
OutsideWeatherUnchanged ==
    UNCHANGED <<pc, validatorVars, builderVars, clusterVars, appVars, refreshVars, segmentVars,
                motionVars, driftVars, regionVars, frameVars, playbackVars, runVars>>

\* the requests sent and the requests the waiting calls will send
Committed == Len(requests) + Cardinality({i \in 1..Len(tasks) : tasks[i].state = "waiting"})

\* a call that sends a request is made
CanCall == Committed < MaxWeatherCalls

\* time passes
Advance(step) ==
    /\ clock + step < Epoch + 2 * CacheLifetime
    /\ step >= CacheLifetime => tasks = <<>>
    /\ step < CacheLifetime => ((clock - Epoch) % CacheLifetime) + step <= MaxShortSteps * API_RATE_LIMIT
    /\ clock' = clock + step
    /\ UNCHANGED <<weatherCache, lastApiCall, requests, tasks, lookup>>
    /\ OutsideWeatherUnchanged

\* fetchWeatherData(lat, lon, altitude) of the data service up to its await
FetchWeatherData(point) ==
    /\ CanCall
    /\ requests' = Append(requests,
                          Request("fetchWeatherData", point,
                                  analytics_getPressureLevel(point.alt)))
    /\ tasks' = Append(tasks, Task("fetchWeatherData", "fetching", point,
                                   analytics_getPressureLevel(point.alt), clock, <<>>, NoPart))
    /\ UNCHANGED <<clock, weatherCache, lastApiCall, lookup>>
    /\ OutsideWeatherUnchanged

\* getWeatherData(lat, lon, alt, force) up to its return or its await
GetWeatherData(point, force) ==
    /\ IF ~force /\ Fresh(LocationKey(point))
       THEN /\ lookup' = (CacheReturn("getWeatherData", "cache", point,
                                                    LocationKey(point)))
            /\ UNCHANGED <<lastApiCall, requests, tasks>>
       ELSE IF ~isValidWeatherLocation(point.lat, point.lon)
       THEN /\ lookup' = (PlainReturn("getWeatherData", "invalid", point,
                                                    LocationKey(point).level))
            /\ UNCHANGED <<lastApiCall, requests, tasks>>
       ELSE IF clock - lastApiCall < API_RATE_LIMIT
       THEN /\ lookup' = (IF LocationKey(point) \in DOMAIN weatherCache
                                THEN CacheReturn("getWeatherData", "rateLimited", point,
                                                 LocationKey(point))
                                ELSE PlainReturn("getWeatherData", "rateLimited", point,
                                                 LocationKey(point).level))
            /\ UNCHANGED <<lastApiCall, requests, tasks>>
       ELSE /\ CanCall
            /\ lastApiCall' = clock
            /\ requests' = Append(requests,
                                  Request("getWeatherData", point,
                                          trajectoryEngine_getPressureLevel(point.alt)))
            /\ tasks' = Append(tasks, Task("getWeatherData", "fetching", point,
                                           trajectoryEngine_getPressureLevel(point.alt),
                                           clock, <<>>, NoPart))
            /\ UNCHANGED lookup
    /\ UNCHANGED <<clock, weatherCache>>
    /\ OutsideWeatherUnchanged

\* the response of a request of fetchWeatherData or getWeatherData arrives:
\* getWeatherData caches what it found
SingleResponds(i, reply) ==
    /\ i \in 1..Len(tasks)
    /\ tasks[i].state = "fetching"
    /\ tasks[i].by \in {"fetchWeatherData", "getWeatherData"}
    /\ weatherCache' =
          IF reply = "data" /\ tasks[i].by = "getWeatherData"
          THEN (LocationKey(tasks[i].point)
                   :> [data |-> WeatherData(tasks[i]), timestamp |-> tasks[i].now])
               @@ weatherCache
          ELSE weatherCache
    /\ lookup' = PlainReturn(tasks[i].by, IF reply = "data" THEN "fetched" ELSE "null",
                              tasks[i].point, tasks[i].level)
    /\ tasks' = RemoveAt(tasks, i)
    /\ UNCHANGED <<clock, lastApiCall, requests>>
    /\ OutsideWeatherUnchanged

\* getCachedWeatherData(lat, lon, alt)
GetCachedWeatherData(point) ==
    /\ lookup' = (IF Fresh(LocationKey(point))
                        THEN CacheReturn("getCachedWeatherData", "cache", point,
                                         LocationKey(point))
                        ELSE PlainReturn("getCachedWeatherData", "miss", point,
                                         LocationKey(point).level))
    /\ UNCHANGED <<clock, weatherCache, lastApiCall, requests, tasks>>
    /\ OutsideWeatherUnchanged

\* getCachedWeatherDataWithTime(lat, lon, alt, hourIndex, balloonId)
GetCachedWeatherDataWithTime(point) ==
    /\ lookup' = (IF Fresh(TrackKey(WeatherBalloon, point))
                        THEN CacheReturn("getCachedWeatherDataWithTime", "cache", point,
                                         TrackKey(WeatherBalloon, point))
                        ELSE IF Fresh(LocationHourKey(point))
                        THEN CacheReturn("getCachedWeatherDataWithTime", "fallback", point,
                                         LocationHourKey(point))
                        ELSE PlainReturn("getCachedWeatherDataWithTime", "miss", point,
                                         LocationHourKey(point).level))
    /\ UNCHANGED <<clock, weatherCache, lastApiCall, requests, tasks>>
    /\ OutsideWeatherUnchanged

\* step 1 of getWeatherDataForTrack: the last slot of results, among the
\* first i, that the cache filled
RECURSIVE LastCached(_, _)
LastCached(track, i) ==
    IF i = 0 THEN PlainReturn("getWeatherDataForTrack", "miss", track[1], "none")
    ELSE IF Fresh(TrackKey(WeatherBalloon, track[i]))
    THEN CacheReturn("getWeatherDataForTrack", "cache", track[i],
                     TrackKey(WeatherBalloon, track[i]))
    ELSE LastCached(track, i - 1)

MissingHours(track) ==
    SelectSeq(track, LAMBDA point : ~Fresh(TrackKey(WeatherBalloon, point)))

\* step 2, from missing point i on: locationGroups in the order of their
\* creation, each with its first point and its hours
RECURSIVE LocationGroups(_, _, _)
LocationGroups(missing, i, groups) ==
    IF i > Len(missing) THEN groups
    ELSE IF \E g \in 1..Len(groups) : groups[g].key = LocationKey(missing[i])
    THEN LocationGroups(missing, i + 1,
             [g \in 1..Len(groups) |->
                 IF groups[g].key = LocationKey(missing[i])
                 THEN [groups[g] EXCEPT !.hours = Append(@, missing[i])]
                 ELSE groups[g]])
    ELSE LocationGroups(missing, i + 1,
             Append(groups, [key |-> LocationKey(missing[i]), point |-> missing[i],
                             hours |-> <<missing[i]>>]))

\* step 3 up to the first await of each group, from group g on: a group
\* of an invalid location returns, a group called within the rate limit
\* waits for its timer, any other sets lastApiCall and sends its request
RECURSIVE StartGroups(_, _, _)
StartGroups(groups, g, acc) ==
    IF g > Len(groups) THEN acc
    ELSE IF ~isValidWeatherLocation(groups[g].point.lat, groups[g].point.lon)
    THEN StartGroups(groups, g + 1, acc)
    ELSE IF clock - acc.last < API_RATE_LIMIT
    THEN StartGroups(groups, g + 1,
             [acc EXCEPT !.tsks =
                 Append(@, Task("getWeatherDataForTrack", "waiting", groups[g].point,
                                trajectoryEngine_getPressureLevel(groups[g].point.alt),
                                clock + (API_RATE_LIMIT - (clock - acc.last)),
                                groups[g].hours, WeatherBalloon))])
    ELSE StartGroups(groups, g + 1,
             [last |-> clock,
              reqs |-> Append(acc.reqs,
                              Request("getWeatherDataForTrack", groups[g].point,
                                      trajectoryEngine_getPressureLevel(groups[g].point.alt))),
              tsks |-> Append(acc.tsks,
                              Task("getWeatherDataForTrack", "fetching", groups[g].point,
                                   trajectoryEngine_getPressureLevel(groups[g].point.alt),
                                   clock, groups[g].hours, WeatherBalloon))])

\* getWeatherDataForTrack(track, balloonId) up to Promise.all
GetWeatherDataForTrack(track) ==
    /\ Committed + Len(LocationGroups(MissingHours(track), 1, <<>>)) <= MaxWeatherCalls
    /\ LET started == StartGroups(LocationGroups(MissingHours(track), 1, <<>>), 1,
                                  [last |-> lastApiCall, reqs |-> requests, tsks |-> tasks])
       IN  /\ lastApiCall' = started.last
           /\ requests' = started.reqs
           /\ tasks' = started.tsks
    /\ lookup' = IF track = <<>>
                 THEN PlainReturn("getWeatherDataForTrack", "empty", [alt |-> 0], "none")
                 ELSE LastCached(track, Len(track))
    /\ UNCHANGED <<clock, weatherCache>>
    /\ OutsideWeatherUnchanged

\* the timer of a waiting group fires: lastApiCall = now with the now read
\* in front of the wait, then the request is sent
TimerFires(i) ==
    /\ i \in 1..Len(tasks)
    /\ tasks[i].state = "waiting"
    /\ clock >= tasks[i].wakeAt
    /\ lastApiCall' = tasks[i].now
    /\ requests' = Append(requests, Request("getWeatherDataForTrack", tasks[i].point,
                                            tasks[i].level))
    /\ tasks' = [tasks EXCEPT ![i].state = "fetching"]
    /\ UNCHANGED <<clock, weatherCache, lookup>>
    /\ OutsideWeatherUnchanged

\* the response of the request of a group arrives: every hour of the group
\* is cached under its track key
GroupResponds(i, reply) ==
    /\ i \in 1..Len(tasks)
    /\ tasks[i].state = "fetching"
    /\ tasks[i].by = "getWeatherDataForTrack"
    /\ weatherCache' =
          IF reply = "data"
          THEN [key \in {TrackKey(tasks[i].balloonId, tasks[i].hours[h]) :
                            h \in 1..Len(tasks[i].hours)} |->
                   [data |-> WeatherData(tasks[i]), timestamp |-> tasks[i].now]]
               @@ weatherCache
          ELSE weatherCache
    /\ lookup' = PlainReturn(tasks[i].by, IF reply = "data" THEN "fetched" ELSE "null",
                              tasks[i].point, tasks[i].level)
    /\ tasks' = RemoveAt(tasks, i)
    /\ UNCHANGED <<clock, lastApiCall, requests>>
    /\ OutsideWeatherUnchanged

NextWeather ==
    \/ \E step \in ClockSteps : Advance(step)
    \/ FetchWeatherData(PointB)
    \/ \E point \in WeatherPoints : \E force \in BOOLEAN : GetWeatherData(point, force)
    \/ \E i \in 1..Len(tasks) : \E reply \in WeatherReplies : SingleResponds(i, reply)
    \/ \E point \in WeatherPoints : GetCachedWeatherData(point)
    \/ \E point \in WeatherPoints : GetCachedWeatherDataWithTime(point)
    \/ \E track \in WeatherTracks : GetWeatherDataForTrack(track)
    \/ \E i \in 1..Len(tasks) : TimerFires(i)
    \/ \E i \in 1..Len(tasks) : \E reply \in WeatherReplies : GroupResponds(i, reply)

SpecWeather == InitWeather /\ [][NextWeather]_vars

\* the requests the weather service sends
ServiceRequests ==
    SelectSeq(requests, LAMBDA r : r.by \in {"getWeatherData", "getWeatherDataForTrack"})

\* C21: every pressure level looked up for a weather request or for a cache
\* key is the documented step function of the altitude: below 1000 m
\* 1000hPa, below 5000 m 700hPa, below 9000 m 500hPa, below 14000 m 200hPa,
\* below 20000 m 100hPa, else 50hPa.  The weather service takes the function
\* of the trajectory engine, which has other steps.
C21_DocumentedPressureLevel ==
    /\ \A i \in 1..Len(requests) :
          requests[i].level = analytics_getPressureLevel(requests[i].alt)
    /\ lookup.level # "none" => lookup.level = analytics_getPressureLevel(lookup.alt)

\* C27: two requests of the weather service are never sent less than
\* 1000 ms apart.  The groups of one getWeatherDataForTrack call that wait
\* for the rate limit wake at the same time and send together.
C27_RequestsApart ==
    \A i, j \in 1..Len(ServiceRequests) :
        i < j => ServiceRequests[j].at - ServiceRequests[i].at >= API_RATE_LIMIT

\* C28: no weather lookup returns a cache entry stored more than
\* 3,600,000 ms earlier.  The rate-limited return of getWeatherData gives
\* the entry of the key whatever its age.
C28_NoExpiredEntry ==
    lookup.hit => lookup.age <= CacheLifetime

-----------------------------------------------------------------------------
(* Core points, borders and noise of detectClusters *)

\* the eps-neighbourhood of a balloon: the balloons within eps of it, the
\* balloon itself among them
EpsNeighbourhood(a) ==
    {b \in InputIds : WithinEps(InputBalloon(a).currentPosition,
                                InputBalloon(b).currentPosition, dbscanConfig)}

\* the balloons whose eps-neighbourhood has at least minPts members
DensePoints == {a \in InputIds : Cardinality(EpsNeighbourhood(a)) >= dbscanConfig.minPts}

\* the core-point test of the main loop and of expandCluster
TreatedAsCore(a) ==
    Len(getNeighbors(inputBalloons, InputBalloon(a), dbscanConfig)) >= dbscanConfig.minPts

\* C22: detectClusters treats a balloon as a core point exactly when the
\* set of balloons within eps of it has at least minPts members.  getNeighbors
\* leaves the balloon itself out, so the test asks for minPts other balloons.
C22_CoreByNeighbourhoodSize ==
    pc \in {"detected", "done"} =>
        \A a \in InputIds : TreatedAsCore(a) <=> a \in DensePoints

\* the clusters of a result that hold a balloon
ClustersHolding(result, a) == {c \in 1..Len(result) : a \in MemberSet(result[c])}

\* C23: after detectClusters every core point is a member of exactly one
\* emitted cluster, for every order of the list.  Stated for the balloons
\* with minPts other balloons within eps, which are core points whether or
\* not the balloon counts as its own neighbour.  A core point whose
\* neighbours were claimed as border points by an earlier cluster grows a
\* cluster that is dropped for being smaller than minPts.
C23_CoreInOneCluster ==
    /\ pc \in {"detected", "done"} =>
          \A a \in CoreIds : Cardinality(ClustersHolding(foundClusters, a)) = 1
    /\ DetectionDone =>
          \A a \in CoreIds : Cardinality(ClustersHolding(foundReordered, a)) = 1

\* every member of a cluster but the first, the core point the cluster grew
\* from, lies within eps of a core point that joined the cluster before it
GrownFromCores(result, cores) ==
    \A c \in 1..Len(result) :
        /\ result[c].balloons[1].id \in cores
        /\ \A j \in 2..Len(result[c].balloons) :
              \E i \in 1..(j - 1) :
                  /\ result[c].balloons[i].id \in cores
                  /\ WithinEps(result[c].balloons[i].currentPosition,
                               result[c].balloons[j].currentPosition, dbscanConfig)

\* the balloons that are no core point and lie within eps of none
NoiseAmong(cores) == {a \in InputIds \ cores : ~\E k \in cores : Adjacent(k, a)}

NoiseIds == NoiseAmong(CoreIds)

\* C24: a balloon is a member of an emitted cluster only if it is a core
\* point or lies within eps of a core point of the same cluster, noise is in
\* no cluster, and no member joins through a member that is not a core
\* point: each member but the first follows a core member within eps of it.
C24_MembersGrownFromCores ==
    pc \in {"detected", "done"} =>
        LET cores == CoreIds
            noise == NoiseAmong(cores)
        IN  /\ GrownFromCores(foundClusters, cores)
            /\ \A a \in noise : ClustersHolding(foundClusters, a) = {}
            /\ DetectionDone =>
                  /\ GrownFromCores(foundReordered, cores)
                  /\ \A a \in noise : ClustersHolding(foundReordered, a) = {}

\* one cluster of four was emitted whose border member at position 3 lies
\* within eps of a balloon that stayed outside, and a balloon far from all
\* others stayed outside as noise
C24_Witness ==
    /\ pc = "detected"
    /\ Len(inputBalloons) = 7
    /\ dbscanConfig = [eps |-> 56, minPts |-> 3, altitudeWeight |-> 3]
    /\ Len(foundClusters) >= 1
    /\ \E m \in MemberSet(foundClusters[1]) \ CoreIds :
          \E b \in InputIds \ MemberSet(foundClusters[1]) : Adjacent(m, b)
    /\ NoiseIds # {}

-----------------------------------------------------------------------------
(* Scenario: detectClusters step by step, one iteration of a loop per step *)

Reverse(list) == [j \in 1..Len(list) |-> list[Len(list) + 1 - j]]

InitRun ==
    /\ pc = "main"
    /\ \E S \in SUBSET (1..Len(Sites)) :
          /\ Cardinality(S) <= MaxBalloons
          /\ inputBalloons \in {BalloonsOf(S), Reverse(BalloonsOf(S))}
    /\ reorderedBalloons = inputBalloons
    /\ dbscanConfig \in Configs
    /\ foundClusters = <<>>
    /\ foundReordered = <<>>
    /\ mainIndex = 1 /\ pendingQueue = <<>> /\ growing = <<>> /\ emitted = <<>>
    /\ visitedSet = {} /\ clusteredSet = {} /\ pushedFor = <<>>
    /\ vData = Null /\ vHour = 0 /\ vResult = Null
    /\ allHoursData = <<>> /\ processed = <<>> /\ tracks = <<>>
    /\ AppIdle
    /\ RefreshIdle /\ SegmentIdle /\ MotionIdle /\ DriftIdle /\ RegionIdle /\ FrameIdle
    /\ WeatherIdle /\ PlaybackIdle

OutsideRunUnchanged ==
    UNCHANGED <<validatorVars, builderVars, appVars, refreshVars, segmentVars, motionVars,
                driftVars, regionVars, frameVars, weatherVars, playbackVars,
                inputBalloons, reorderedBalloons, dbscanConfig, foundReordered>>

\* one call of the forEach callback of the main loop, up to its return or
\* to the while loop of expandCluster
MainStep ==
    /\ pc = "main"
    /\ mainIndex <= Len(inputBalloons)
    /\ LET balloon == inputBalloons[mainIndex]
           neighbors == getNeighbors(inputBalloons, balloon, dbscanConfig)
       IN  IF balloon.id \in visitedSet
           THEN /\ mainIndex' = mainIndex + 1
                /\ UNCHANGED <<pc, pendingQueue, growing, visitedSet, clusteredSet, pushedFor>>
           ELSE IF Len(neighbors) < dbscanConfig.minPts
           THEN /\ visitedSet' = visitedSet \cup {balloon.id}
                /\ mainIndex' = mainIndex + 1
                /\ UNCHANGED <<pc, pendingQueue, growing, clusteredSet, pushedFor>>
           ELSE /\ visitedSet' = visitedSet \cup {balloon.id}
                /\ growing' = <<balloon>>
                /\ clusteredSet' = clusteredSet \cup {balloon.id}
                /\ pendingQueue' = neighbors
                /\ pushedFor' = Append(pushedFor, balloon.id)
                /\ pc' = "expanding"
                /\ UNCHANGED mainIndex
    /\ UNCHANGED <<emitted, foundClusters>>
    /\ OutsideRunUnchanged

\* one iteration of the while loop of expandCluster that leaves a claimed
\* balloon at the head of the queue
ExpandStepKeepingClaimed ==
    /\ pc = "expanding"
    /\ pendingQueue # <<>>
    /\ LET current == Head(pendingQueue)
           rest == Tail(pendingQueue)
           currentNeighbors == getNeighbors(inputBalloons, current, dbscanConfig)
       IN  IF current.id \in clusteredSet
           THEN UNCHANGED <<pendingQueue, growing, visitedSet, clusteredSet, pushedFor>>
           ELSE /\ clusteredSet' = clusteredSet \cup {current.id}
                /\ growing' = Append(growing, current)
                /\ visitedSet' = visitedSet \cup {current.id}
                /\ IF current.id \notin visitedSet
                      /\ Len(currentNeighbors) >= dbscanConfig.minPts
                   THEN /\ pendingQueue' = rest \o currentNeighbors
                        /\ pushedFor' = Append(pushedFor, current.id)
                   ELSE /\ pendingQueue' = rest
                        /\ UNCHANGED pushedFor
    /\ UNCHANGED <<pc, mainIndex, emitted, foundClusters>>
    /\ OutsideRunUnchanged

\* one iteration of the while loop of expandCluster
ExpandStep ==
    /\ pc = "expanding"
    /\ pendingQueue # <<>>
    /\ LET current == Head(pendingQueue)
           rest == Tail(pendingQueue)
           currentNeighbors == getNeighbors(inputBalloons, current, dbscanConfig)
       IN  IF current.id \in clusteredSet
           THEN /\ pendingQueue' = rest
                /\ UNCHANGED <<growing, visitedSet, clusteredSet, pushedFor>>
           ELSE /\ clusteredSet' = clusteredSet \cup {current.id}
                /\ growing' = Append(growing, current)
                /\ visitedSet' = visitedSet \cup {current.id}
                /\ IF current.id \notin visitedSet
                      /\ Len(currentNeighbors) >= dbscanConfig.minPts
                   THEN /\ pendingQueue' = rest \o currentNeighbors
                        /\ pushedFor' = Append(pushedFor, current.id)
                   ELSE /\ pendingQueue' = rest
                        /\ UNCHANGED pushedFor
    /\ UNCHANGED <<pc, mainIndex, emitted, foundClusters>>
    /\ OutsideRunUnchanged

\* the queue is empty: expandCluster returns and the main loop keeps the
\* cluster if it has minPts members
ExpandReturns ==
    /\ pc = "expanding"
    /\ pendingQueue = <<>>
    /\ emitted' = IF Len(growing) >= dbscanConfig.minPts
                  THEN Append(emitted, [center |-> calculateCenterPoint(growing),
                                        count |-> Len(growing), balloons |-> growing])
                  ELSE emitted
    /\ growing' = <<>>
    /\ mainIndex' = mainIndex + 1
    /\ pc' = "main"
    /\ UNCHANGED <<pendingQueue, visitedSet, clusteredSet, pushedFor, foundClusters>>
    /\ OutsideRunUnchanged

\* forEach is over: return clusters
RunReturns ==
    /\ pc = "main"
    /\ mainIndex > Len(inputBalloons)
    /\ foundClusters' = emitted
    /\ pc' = "returned"
    /\ UNCHANGED runVars
    /\ OutsideRunUnchanged

NextRun == MainStep \/ ExpandStep \/ ExpandReturns \/ RunReturns

SpecRun == InitRun /\ [][NextRun]_vars

\* the call runs on: no step of a running loop is put off for ever
FairSpecRun == SpecRun /\ WF_vars(NextRun)

\* the step-by-step run returns what detectClusters returns
RunAgrees == pc = "returned" => foundClusters = detectClusters(inputBalloons, dbscanConfig)

\* no balloon had its neighbours put on a queue twice
PushedOnce == \A i, j \in 1..Len(pushedFor) : i # j => pushedFor[i] # pushedFor[j]

\* C25: detectClusters terminates for every balloon list and every
\* configuration: each balloon has its neighbours put on the queue at most
\* once in a call, and the call returns.
C25_ExpansionTerminates == [](PushedOnce) /\ <>(pc = "returned")

\* the neighbours of three balloons were put on the queue, which holds a
\* balloon twice
C25_Witness ==
    /\ pc = "expanding"
    /\ Len(pushedFor) >= 3
    /\ \E i, j \in 1..Len(pendingQueue) :
          i < j /\ pendingQueue[i].id = pendingQueue[j].id

-----------------------------------------------------------------------------
(* Scenario: detectEddies on the tracks of balloons that turn *)

\* most segments of a track of the scenario
MaxEddySegments == 6

\* what a balloon does in an hour: a tenth of a degree to the north, east,
\* south or west, or no movement
Headings == {"north", "east", "south", "west", "none"}

\* the track of a list of hourly moves, from the point reached so far
RECURSIVE TurningTrack(_, _, _)
TurningTrack(moves, lat, lon) ==
    <<[lat |-> lat, lon |-> lon, alt |-> Fix(12000), hourIndex |-> Len(moves)]>>
    \o (IF moves = <<>> THEN <<>>
        ELSE TurningTrack(Tail(moves),
                          lat + (CASE Head(moves) = "north" -> 1
                                   [] Head(moves) = "south" -> -1
                                   [] OTHER -> 0),
                          lon + (CASE Head(moves) = "east" -> 1
                                   [] Head(moves) = "west" -> -1
                                   [] OTHER -> 0)))

InitEddy ==
    /\ pc = "selected"
    /\ \E n \in 0..MaxEddySegments : movement \in [1..n -> Headings]
    /\ selectedTrack \in {JArr(TurningTrack(movement, 0, 0))}
                          \cup (IF movement = <<>> THEN {Undefined} ELSE {})
    /\ trackSpeeds = <<>> /\ totalDistance = <<>>
    /\ trackStats = <<>> /\ driftVector = <<>> /\ isEddy = FALSE /\ isTurbulent = FALSE
    /\ timeWindow = <<>> /\ filteredTracks = <<>>
    /\ RefreshIdle /\ SegmentIdle /\ DriftIdle /\ RegionIdle /\ FrameIdle /\ SessionIdle
    /\ vData = Null /\ vHour = 0 /\ vResult = Null
    /\ allHoursData = <<>> /\ processed = <<>> /\ tracks = <<>>
    /\ ClusterIdle
    /\ AppIdle

\* isEddy = detectEddies(track)
DetectEddies ==
    /\ pc = "selected"
    /\ isEddy' = detectEddies(selectedTrack)
    /\ pc' = "measured"
    /\ UNCHANGED <<movement, selectedTrack, trackSpeeds, totalDistance, trackStats,
                   driftVector, isTurbulent, timeWindow, filteredTracks>>
    /\ UNCHANGED <<validatorVars, builderVars, clusterVars, appVars, refreshVars, segmentVars,
                   driftVars, regionVars, frameVars, sessionVars>>

NextEddy == DetectEddies

SpecEddy == InitEddy /\ [][NextEddy]_vars

\* C26: detectEddies is false for a track of fewer than 6 points, and for a
\* longer track true exactly when the accumulated heading change, each step
\* wrapped to at most 180 degrees, is above 360 degrees or more than 60% of
\* the segments of the track show a heading change above 45 degrees.  The
\* code compares the number of such changes with 60% of the number of points.
C26_EddyRule ==
    (pc = "measured" /\ IsArray(selectedTrack)) =>
        LET points == selectedTrack.items
            sums == EddyLoop(points, 2, 0, 0)
        IN  isEddy <=> /\ Len(points) >= 6
                       /\ \/ sums[1] > 360
                          \/ 10 * sums[2] > 6 * (Len(points) - 1)

-----------------------------------------------------------------------------
(* The balloons of processBalloonData against the snapshots and the tracks *)

\* the positions in the list of the snapshots of hour h that hold the id
ListedWith(h, id) == {i \in ListedAt(h) : id \in IdsIn(allHoursData[i])}

\* positions is the full history of the balloon, ascending by hour
FullSortedHistory(b) ==
    /\ \A j, k \in 1..Len(b.positions) : j < k => b.positions[j].hour <= b.positions[k].hour
    /\ \A h \in 0..OldestHour :
          Len(SelectSeq(b.positions, LAMBDA p : p.hour = h)) = Cardinality(ListedWith(h, b.id))
    /\ \A j \in 1..Len(b.positions) :
          \E i \in ListedWith(b.positions[j].hour, b.id) :
              SamePosition(b.positions[j], BalloonIn(allHoursData[i], b.id))

\* currentPosition is a position of the balloon at hour 0 if it has one,
\* else one at the smallest hour it has
MostRecentPosition(b) ==
    LET h == IF 0 \in SuppliedHours(b.id) THEN 0 ELSE MinOf(SuppliedHours(b.id))
    IN  /\ b.currentPosition.hour = h
        /\ \E i \in ListedWith(h, b.id) :
              SamePosition(b.currentPosition, BalloonIn(allHoursData[i], b.id))

\* no two snapshots of the list have the same hour
HoursListedOnce == \A h \in 0..OldestHour : Cardinality(ListedAt(h)) <= 1

\* C29 as claimed: positions is the full history sorted ascending by hour,
\* currentPosition is the hour-0 position if the balloon has one and else
\* its position of the smallest hour, and the ids of the balloons are the
\* ids of the tracks built from the same snapshots.
C29_Original_SameIdsAsTracks ==
    Built =>
        /\ \A j \in 1..Len(processed) :
              FullSortedHistory(processed[j]) /\ MostRecentPosition(processed[j])
        /\ ProcessedIds = DOMAIN tracks

\* C29 amended: positions and currentPosition as claimed, where of several
\* hour-0 positions the last-listed is current and of several positions of
\* the smallest hour the first-listed; the balloons have the ids of all
\* snapshots, the tracks the ids held by the first-listed snapshot of some
\* hour, and the two sets are equal when no hour is listed twice.
C29_HistoryAndIds ==
    Built =>
        /\ \A j \in 1..Len(processed) :
              LET b == processed[j]
              IN  /\ FullSortedHistory(b)
                  /\ MostRecentPosition(b)
                  /\ IF 0 \in SuppliedHours(b.id)
                     THEN SamePosition(b.currentPosition,
                                       BalloonIn(LastListedWith(0, b.id), b.id))
                     ELSE b.currentPosition = b.positions[1]
        /\ ProcessedIds = SuppliedIds
        /\ DOMAIN tracks = {id \in SuppliedIds : FirstListedHours(id) # {}}
        /\ HoursListedOnce => ProcessedIds = DOMAIN tracks

\* three snapshots of three hours listed oldest first; balloon 1 is absent
\* at hour 0, its current position is the one of hour 1, and both builders
\* have the two ids
C29_Witness ==
    /\ Built
    /\ Len(allHoursData) = 3
    /\ allHoursData[1].hour = 2 /\ allHoursData[2].hour = 1 /\ allHoursData[3].hour = 0
    /\ SuppliedHours(BalloonId(1)) = {1, 2}
    /\ SuppliedHours(BalloonId(0)) = {0, 1, 2}
    /\ ProcessedOf(BalloonId(1)).currentPosition.hour = 1
    /\ ProcessedOf(BalloonId(0)).currentPosition.hour = 0
    /\ ProcessedIds = DOMAIN tracks
    /\ Cardinality(ProcessedIds) = 2

-----------------------------------------------------------------------------
(* Scenario: time playback of App and TimeScrubber                         *)
(*                                                                         *)
(* Hours are held in 1/100000 hour, the precision selectedHour is rounded  *)
(* to.  A step is a handler or the interval callback together with the     *)
(* render and the effects that follow it: the effect on [selectedHour]     *)
(* copies a changed selectedHour to selectedHourRef.current, the effect on *)
(* [isPlaying] sets or clears the interval.                                *)
(***************************************************************************)

\* one hour, and the first hour of the slider
HourUnits == 100000

FirstHour == 23

\* the effect on [selectedHour]: runs when the state has changed
SyncRef(current, hour) == IF hour # selectedHour THEN hour ELSE current

\* Math.round(x * 100000) / 100000 of x given in thirds of 1/100000 hour
RoundHour(thirds) == (thirds + 1) \div 3

\* the position of the slider the user drags to: either end or the middle
SliderValues(maxSteps) == {0, maxSteps \div 2, maxSteps}

\* most user actions in a session
MaxUserActions == 3

InitPlayback ==
    /\ pc = "start"
    /\ selectedHourRef = FirstHour * HourUnits
    /\ selectedHour = FirstHour * HourUnits
    /\ isPlaying = FALSE
    /\ activeViewTab = "flow"
    /\ userActions = 0
    /\ WeatherIdle /\ RunIdle
    /\ RefreshIdle /\ SegmentIdle /\ MotionIdle /\ DriftIdle /\ RegionIdle /\ FrameIdle
    /\ AppIdle
    /\ vData = Null /\ vHour = 0 /\ vResult = Null
    /\ allHoursData = <<>> /\ processed = <<>> /\ tracks = <<>>
    /\ ClusterIdle

OutsidePlaybackUnchanged ==
    UNCHANGED <<pc, validatorVars, builderVars, clusterVars, appVars, refreshVars, segmentVars,
                motionVars, driftVars, regionVars, frameVars, weatherVars, runVars>>

\* the callback of setInterval without setIsPlaying(false)
TickKeepsPlaying ==
    /\ isPlaying
    /\ LET moved == 3 * selectedHourRef - 5000
           current == IF moved < 0 THEN 0 ELSE moved
       IN  /\ selectedHour' = RoundHour(current)
           /\ selectedHourRef' = SyncRef(RoundHour(current), RoundHour(current))
    /\ UNCHANGED <<isPlaying, activeViewTab, userActions>>
    /\ OutsidePlaybackUnchanged

\* the callback of setInterval: 1/60 hour is 5000 thirds of 1/100000 hour
Tick ==
    /\ isPlaying
    /\ LET moved == 3 * selectedHourRef - 5000
           current == IF moved < 0 THEN 0 ELSE moved
       IN  /\ isPlaying' = (IF moved < 0 THEN FALSE ELSE isPlaying)
           /\ selectedHour' = RoundHour(current)
           /\ selectedHourRef' = SyncRef(RoundHour(current), RoundHour(current))
    /\ UNCHANGED <<activeViewTab, userActions>>
    /\ OutsidePlaybackUnchanged

\* the user acts once more
Act ==
    /\ userActions < MaxUserActions
    /\ userActions' = userActions + 1

handlePlayPause ==
    /\ Act
    /\ isPlaying' = ~isPlaying
    /\ UNCHANGED <<selectedHourRef, selectedHour, activeViewTab>>
    /\ OutsidePlaybackUnchanged

SetSelectedHour(hour) ==
    /\ selectedHour' = hour
    /\ selectedHourRef' = SyncRef(selectedHourRef, hour)

handlePrevHour ==
    /\ Act
    /\ isPlaying' = FALSE
    /\ SetSelectedHour(IF selectedHour + HourUnits > FirstHour * HourUnits
                       THEN FirstHour * HourUnits ELSE selectedHour + HourUnits)
    /\ UNCHANGED activeViewTab
    /\ OutsidePlaybackUnchanged

handleNextHour ==
    /\ Act
    /\ isPlaying' = FALSE
    /\ SetSelectedHour(IF selectedHour - HourUnits < 0 THEN 0 ELSE selectedHour - HourUnits)
    /\ UNCHANGED activeViewTab
    /\ OutsidePlaybackUnchanged

\* handleSliderChange of TimeScrubber with onHourChange = setSelectedHour
handleSliderChange(newValue) ==
    /\ Act
    /\ LET stepsPerHour == IF activeViewTab = "flow" THEN 10 ELSE 1
       IN  /\ newValue \in SliderValues(FirstHour * stepsPerHour)
           /\ SetSelectedHour(FirstHour * HourUnits - (newValue * HourUnits) \div stepsPerHour)
    /\ UNCHANGED <<isPlaying, activeViewTab>>
    /\ OutsidePlaybackUnchanged

handleViewTabChange(tab) ==
    /\ Act
    /\ activeViewTab' = tab
    /\ IF tab = "analysis"
       THEN /\ isPlaying' = FALSE
            /\ selectedHour' = FirstHour * HourUnits
            /\ selectedHourRef' = FirstHour * HourUnits
       ELSE IF tab = "flow"
       THEN /\ selectedHour' = FirstHour * HourUnits
            /\ selectedHourRef' = FirstHour * HourUnits
            /\ UNCHANGED isPlaying
       ELSE UNCHANGED <<selectedHourRef, selectedHour, isPlaying>>
    /\ OutsidePlaybackUnchanged

UserAction ==
    \/ handlePlayPause
    \/ handlePrevHour
    \/ handleNextHour
    \/ \E newValue \in 0..(FirstHour * 10) : handleSliderChange(newValue)
    \/ \E tab \in {"flow", "analysis"} : handleViewTabChange(tab)

NextPlayback == Tick \/ UserAction

SpecPlayback == InitPlayback /\ [][NextPlayback]_vars

\* the interval fires as long as it is set
FairSpecPlayback == SpecPlayback /\ WF_vars(Tick)

HourInRange == 0 <= selectedHour /\ selectedHour <= FirstHour * HourUnits

\* the user acts no more
UserDone == userActions = MaxUserActions

====
